---- MODULE Spec2Model ----
(***************************************************************************)
(* A model of the layer code of paddlenlp/transformers:                    *)
(*   nezha/modeling.py    NeZhaAttention (relative-position table,         *)
(*                        construction, forward)                           *)
(*   electra/modeling.py  ElectraForTotalPretraining (generator /          *)
(*                        discriminator coupling) and                      *)
(*                        ElectraPretrainingCriterion (the loss)           *)
(* Tensors are functions over 0-based index ranges, as in the source.      *)
(* Floating-point values the framework computes (sin, cos, cross entropy)  *)
(* are kept as symbolic terms or as integer weights; every integer, index  *)
(* and shape computation is carried out as the code carries it out.        *)
(***************************************************************************)
EXTENDS Integers, Sequences, FiniteSets, TLC

VARIABLES relpos, attn, electra, crit, enc, nezha, mc, qa, pre, emask, av, tie, sampler

\* the components added to the first four: the encoder stack, NeZhaModel, the
\* multiple-choice, question-answering and pretraining heads, the mask of
\* ElectraModel / DistilBertModel, the values of NeZhaAttention.forward, the
\* tying of ELECTRA's embedding weights and the sampling from the generator
more == <<enc, nezha, mc, qa, pre, emask, av, tie, sampler>>

vars == <<relpos, attn, electra, crit, more>>

(***************************************************************************)
(* Bounds of the model.                                                    *)
(***************************************************************************)
\* largest `length` handed to generate_relative_positions_embeddings
MaxLength == 4
\* largest `depth` (per-head dimension) of the relative-position table
MaxDepth == 3
\* largest max_relative_position
MaxRelPos == 4

\* largest hidden_size of a NeZhaAttention layer
MaxHidden == 4
\* largest num_attention_heads
MaxHeads == 3
\* largest batch size of a forward call
MaxBatch == 2
\* largest sequence length of a NeZhaAttention.forward call
MaxSeqLen == 5
\* The `length` of the table built at construction. The source fixes it to 512
\* (nezha/modeling.py line 85); the model scales it down, and MaxSeqLen exceeds it.
TableLength == 3

\* number of token positions of the [batch, seq] tensors of a pretraining step
NumPos == 2

\* largest number of positions (batch * seq_length) of the tensors handed to
\* ElectraPretrainingCriterion.forward
MaxCritPos == 4

\* The value a component's variable holds in a specification about another one.
Idle == [pc |-> "idle"]

MoreIdle ==
    /\ enc = Idle
    /\ nezha = Idle
    /\ mc = Idle
    /\ qa = Idle
    /\ pre = Idle
    /\ emask = Idle
    /\ av = Idle
    /\ tie = Idle
    /\ sampler = Idle

(***************************************************************************)
(* Tensor helpers (paddle primitives the code calls).                      *)
(***************************************************************************)
\* paddle.arange(n)
arange(n) == [k \in 0..(n - 1) |-> k]

\* paddle.tile of a 1-D tensor of n elements, repeat_times=[times]
tile(vec, n, times) == [k \in 0..(n * times - 1) |-> vec[k % n]]

\* Tensor.reshape((rows, cols)) of a flat tensor, row-major
reshape2(flat, rows, cols) ==
    [i \in 0..(rows - 1) |-> [j \in 0..(cols - 1) |-> flat[i * cols + j]]]

\* paddle.t of a square matrix
t(mat, n) == [i \in 0..(n - 1) |-> [j \in 0..(n - 1) |-> mat[j][i]]]

\* paddle.clip
clip(x, lo, hi) == IF x < lo THEN lo ELSE IF x > hi THEN hi ELSE x

\* paddle.nn.functional.one_hot of one index
one_hot(x, num_classes) == [p \in 0..(num_classes - 1) |-> IF p = x THEN 1 ELSE 0]

(***************************************************************************)
(* NeZhaAttention.generate_relative_positions_embeddings                   *)
(***************************************************************************)
\* Symbolic float values: the exact 0 and 1, and sin / cos of pos / 10000^(2i/depth).
Zero == <<"zero", 0, 0>>
One == <<"one", 0, 0>>

np_sin(pos, i) == IF pos = 0 THEN Zero ELSE <<"sin", pos, i>>
np_cos(pos, i) == IF pos = 0 THEN One ELSE <<"cos", pos, i>>

vocab_size(max_relative_position) == max_relative_position * 2 + 1

range_vec(length) == arange(length)

range_mat(length) == reshape2(tile(range_vec(length), length, length), length, length)

distance_mat_swapped(length) ==
    [i \in 0..(length - 1) |-> [j \in 0..(length - 1) |->
        t(range_mat(length), length)[i][j] - range_mat(length)[i][j]]]

distance_mat(length) ==
    [i \in 0..(length - 1) |-> [j \in 0..(length - 1) |->
        range_mat(length)[i][j] - t(range_mat(length), length)[i][j]]]

distance_mat_unclipped(length, max_relative_position) == distance_mat(length)

distance_mat_clipped(length, max_relative_position) ==
    [i \in 0..(length - 1) |-> [j \in 0..(length - 1) |->
        clip(distance_mat(length)[i][j], -max_relative_position, max_relative_position)]]

final_mat_unshifted(length, max_relative_position) ==
    distance_mat_clipped(length, max_relative_position)

final_mat(length, max_relative_position) ==
    [i \in 0..(length - 1) |-> [j \in 0..(length - 1) |->
        distance_mat_clipped(length, max_relative_position)[i][j] + max_relative_position]]

\* np.zeros([vocab_size, depth]) filled by the double loop: columns 2i and 2i+1
\* for i < depth // 2; the last column of an odd depth stays zero.
embeddings_table(max_relative_position, depth) ==
    [pos \in 0..(vocab_size(max_relative_position) - 1) |->
        [k \in 0..(depth - 1) |->
            IF k < 2 * (depth \div 2)
            THEN IF k % 2 = 0 THEN np_sin(pos, k \div 2) ELSE np_cos(pos, k \div 2)
            ELSE Zero]]

\* final_mat.reshape((-1,))
flat_relative_positions_matrix(length, max_relative_position) ==
    [r \in 0..(length * length - 1) |->
        final_mat(length, max_relative_position)[r \div length][r % length]]

one_hot_relative_positions_matrix(length, max_relative_position) ==
    [r \in 0..(length * length - 1) |->
        one_hot(flat_relative_positions_matrix(length, max_relative_position)[r],
                vocab_size(max_relative_position))]

\* One row of paddle.matmul(one_hot, table): the sum over p of row[p] * table[p],
\* which is table[p] for a row with a single 1 and zero for a row of zeros.
onehot_matmul_row(row, table, depth) ==
    LET hot == {p \in DOMAIN row : row[p] = 1}
    IN  IF hot = {} THEN [k \in 0..(depth - 1) |-> Zero]
        ELSE table[CHOOSE p \in hot : TRUE]

\* embeddings.reshape(final_mat.shape + [depth])
generate_relative_positions_embeddings(length, depth, max_relative_position) ==
    LET flat == [r \in 0..(length * length - 1) |->
                    onehot_matmul_row(
                        one_hot_relative_positions_matrix(length, max_relative_position)[r],
                        embeddings_table(max_relative_position, depth), depth)]
    IN  reshape2(flat, length, length)

(***************************************************************************)
(* Specification SpecRelPos: the table builder applied to every input.     *)
(***************************************************************************)
RelPosInputs ==
    [pc : {"call"}, length : 1..MaxLength, depth : 1..MaxDepth,
     max_relative_position : 0..MaxRelPos]

InitRelPos ==
    /\ relpos \in RelPosInputs
    /\ attn = Idle
    /\ electra = Idle
    /\ crit = Idle
    /\ MoreIdle

GenerateRelPos ==
    /\ relpos.pc = "call"
    /\ relpos' = [pc |-> "done",
                  length |-> relpos.length,
                  depth |-> relpos.depth,
                  max_relative_position |-> relpos.max_relative_position,
                  distance_mat_clipped |->
                      distance_mat_clipped(relpos.length, relpos.max_relative_position),
                  final_mat |-> final_mat(relpos.length, relpos.max_relative_position),
                  embeddings |->
                      generate_relative_positions_embeddings(
                          relpos.length, relpos.depth, relpos.max_relative_position)]
    /\ UNCHANGED <<attn, electra, crit, more>>

NextRelPos == GenerateRelPos

SpecRelPos == InitRelPos /\ [][NextRelPos]_vars

(***************************************************************************)
(* Claims about the table builder.                                         *)
(***************************************************************************)
\* x limited to [-m, m], written out
Limited(x, m) == IF x < -m THEN -m ELSE IF x > m THEN m ELSE x

RelPosIdx == 0..(relpos.length - 1)

\* C1 (as stated): the distance matrix is D[i,j] = i - j clipped to [-m, m].
C1_Original ==
    relpos.pc = "done" =>
        \A i \in RelPosIdx, j \in RelPosIdx :
            relpos.distance_mat_clipped[i][j] = Limited(i - j, relpos.max_relative_position)

\* C1 (amended): the distance matrix is D[i,j] = j - i clipped to [-m, m]:
\* the column index minus the row index.
C1_DistanceIsColMinusRow ==
    relpos.pc = "done" =>
        \A i \in RelPosIdx, j \in RelPosIdx :
            relpos.distance_mat_clipped[i][j] = Limited(j - i, relpos.max_relative_position)

C1_Witness ==
    /\ relpos.pc = "done"
    /\ relpos.length = 3
    /\ relpos.max_relative_position = 1
    /\ relpos.distance_mat_clipped[0][2] = 1
    /\ relpos.distance_mat_clipped[2][0] = -1

\* C2: the table has shape (length, length, depth), and two position pairs with
\* the same clipped distance hold the same vector.
C2_TableDependsOnClippedDistance ==
    relpos.pc = "done" =>
        /\ DOMAIN relpos.embeddings = RelPosIdx
        /\ \A i \in RelPosIdx :
            /\ DOMAIN relpos.embeddings[i] = RelPosIdx
            /\ \A j \in RelPosIdx : DOMAIN relpos.embeddings[i][j] = 0..(relpos.depth - 1)
        /\ \A i \in RelPosIdx, j \in RelPosIdx, i2 \in RelPosIdx, j2 \in RelPosIdx :
            Limited(i - j, relpos.max_relative_position)
                    = Limited(i2 - j2, relpos.max_relative_position)
                => relpos.embeddings[i][j] = relpos.embeddings[i2][j2]

\* two pairs at raw distances 1 and 2 share the clipped distance 1, and pairs at
\* different clipped distances hold different vectors
C2_Witness ==
    /\ relpos.pc = "done"
    /\ relpos.length = 3
    /\ relpos.max_relative_position = 1
    /\ relpos.depth >= 2
    /\ relpos.embeddings[0][1] = relpos.embeddings[0][2]
    /\ relpos.embeddings[0][1] # relpos.embeddings[1][0]

\* C3: every bucket index D[i,j] + max_relative_position is a row of the
\* (2 * max_relative_position + 1)-row sinusoidal table.
C3_BucketInRange ==
    relpos.pc = "done" =>
        \A i \in RelPosIdx, j \in RelPosIdx :
            /\ relpos.final_mat[i][j] >= 0
            /\ relpos.final_mat[i][j] <= 2 * relpos.max_relative_position
            /\ relpos.final_mat[i][j]
                   \in DOMAIN embeddings_table(relpos.max_relative_position, relpos.depth)

\* both ends of the range are hit, by clipped distances
C3_Witness ==
    /\ relpos.pc = "done"
    /\ relpos.length = 3
    /\ relpos.max_relative_position = 1
    /\ relpos.final_mat[2][0] = 0
    /\ relpos.final_mat[0][2] = 2

(***************************************************************************)
(* Tensor shapes: sequences of dimensions.  Fault stands for the exception *)
(* the framework raises on incompatible shapes; it propagates to the end   *)
(* of the call.                                                            *)
(***************************************************************************)
Fault == <<-1>>

IsFault(s) == s = Fault

Min(a, b) == IF a < b THEN a ELSE b

Max(a, b) == IF a > b THEN a ELSE b

RECURSIVE Numel(_)
Numel(s) == IF s = <<>> THEN 1 ELSE Head(s) * Numel(Tail(s))

\* Tensor.reshape(new): the element count must be kept
reshape_shape(s, new) ==
    IF IsFault(s) \/ Numel(s) # Numel(new) THEN Fault ELSE new

\* Tensor.transpose(perm), perm 0-based
transpose_shape(s, perm) ==
    IF IsFault(s) \/ Len(s) # Len(perm) THEN Fault
    ELSE [k \in 1..Len(perm) |-> s[perm[k] + 1]]

\* one broadcast dimension: equal, or one of the two is 1
BroadcastOk(a, b) == a = b \/ a = 1 \/ b = 1

\* broadcasting of two shapes, aligned at their last dimensions
broadcast_shape(x, y) ==
    IF IsFault(x) \/ IsFault(y) THEN Fault
    ELSE LET n == Max(Len(x), Len(y))
             xd(k) == IF k + Len(x) - n >= 1 THEN x[k + Len(x) - n] ELSE 1
             yd(k) == IF k + Len(y) - n >= 1 THEN y[k + Len(y) - n] ELSE 1
         IN  IF \A k \in 1..n : BroadcastOk(xd(k), yd(k))
             THEN [k \in 1..n |-> Max(xd(k), yd(k))]
             ELSE Fault

\* paddle.matmul of two tensors of at least two dimensions: the inner dimensions
\* must agree and the leading (batch) dimensions must broadcast
matmul_shape(x, y) ==
    IF IsFault(x) \/ IsFault(y) \/ Len(x) < 2 \/ Len(y) < 2 THEN Fault
    ELSE IF x[Len(x)] # y[Len(y) - 1] THEN Fault
    ELSE LET b == broadcast_shape(SubSeq(x, 1, Len(x) - 2), SubSeq(y, 1, Len(y) - 2))
         IN  IF IsFault(b) THEN Fault ELSE b \o <<x[Len(x) - 1], y[Len(y)]>>

\* nn.Linear(in_features, out_features) applied to a tensor
linear_shape(s, in_features, out_features) ==
    IF IsFault(s) \/ s[Len(s)] # in_features THEN Fault
    ELSE SubSeq(s, 1, Len(s) - 1) \o <<out_features>>

\* tensor[:n, :n, :] without the end clamped to the dimension
slice_unclamped(s, n) == <<n, n, s[3]>>

\* tensor[:n, :n, :] of a 3-D tensor: a slice end past the dimension is clamped
slice_shape(s, n) == <<Min(s[1], n), Min(s[2], n), s[3]>>

\* the shape of a stored (length, length, depth) table
table_shape(tab) ==
    <<Cardinality(DOMAIN tab), Cardinality(DOMAIN tab[0]), Cardinality(DOMAIN tab[0][0])>>

(***************************************************************************)
(* NeZhaAttention                                                          *)
(***************************************************************************)
never_raise(hidden_size, num_attention_heads) == FALSE

\* the guard of __init__: hidden_size % num_attention_heads != 0
not_a_multiple(hidden_size, num_attention_heads) ==
    hidden_size % num_attention_heads # 0

\* the attributes __init__ assigns sub-layers to, in order
NeZhaAttentionSublayers ==
    <<"query", "key", "value", "relative_positions_embeddings",
      "attention_dropout", "dense", "layer_norm", "output_dropout">>

NoForward ==
    [status |-> "none", batch_size |-> 0, seq |-> 0,
     relations_keys |-> Fault, output |-> Fault, attention_scores |-> Fault]

\* x.reshape(x.shape[:-1] + [heads, head_size]).transpose((0, 2, 1, 3))
transpose_for_scores(x, heads, head_size) ==
    IF IsFault(x) THEN Fault
    ELSE transpose_shape(
             reshape_shape(x, SubSeq(x, 1, Len(x) - 1) \o <<heads, head_size>>),
             <<0, 2, 1, 3>>)

\* NeZhaAttention.forward on the shapes of its tensors, line by line
forward_shapes(self, hidden_states, attention_mask) ==
    LET hidden == self.hidden_size
        heads == self.num_attention_heads
        head_size == self.attention_head_size
        all_head == self.all_head_size
        table == table_shape(self.relative_positions_embeddings)
        query_layer ==
            transpose_for_scores(linear_shape(hidden_states, hidden, all_head), heads, head_size)
        key_layer ==
            transpose_for_scores(linear_shape(hidden_states, hidden, all_head), heads, head_size)
        value_layer ==
            transpose_for_scores(linear_shape(hidden_states, hidden, all_head), heads, head_size)
        scores0 == matmul_shape(query_layer, transpose_shape(key_layer, <<0, 1, 3, 2>>))
        batch_size == scores0[1]
        num_attention_heads == scores0[2]
        from_seq_length == scores0[3]
        to_seq_length == scores0[4]
        relations_keys == slice_shape(table, to_seq_length)
        query_layer_r ==
            reshape_shape(transpose_shape(query_layer, <<2, 0, 1, 3>>),
                          <<from_seq_length, batch_size * num_attention_heads, head_size>>)
        key_position_scores ==
            matmul_shape(query_layer_r, transpose_shape(relations_keys, <<0, 2, 1>>))
        key_position_scores_r_t ==
            transpose_shape(
                reshape_shape(key_position_scores,
                    <<from_seq_length, batch_size, num_attention_heads, from_seq_length>>),
                <<1, 2, 0, 3>>)
        scores1 == broadcast_shape(scores0, key_position_scores_r_t)
        attention_scores == broadcast_shape(scores1, attention_mask)
        attention_probs == attention_scores
        context0 == matmul_shape(attention_probs, value_layer)
        relations_values == slice_shape(table, to_seq_length)
        attentions_probs_r ==
            reshape_shape(transpose_shape(attention_probs, <<2, 0, 1, 3>>),
                          <<from_seq_length, batch_size * num_attention_heads, to_seq_length>>)
        value_position_scores == matmul_shape(attentions_probs_r, relations_values)
        value_position_scores_r_t ==
            transpose_shape(
                reshape_shape(value_position_scores,
                    <<from_seq_length, batch_size, num_attention_heads, head_size>>),
                <<1, 2, 0, 3>>)
        context1 == broadcast_shape(context0, value_position_scores_r_t)
        context2 == transpose_shape(context1, <<0, 2, 1, 3>>)
        context_layer ==
            IF IsFault(context2) THEN Fault
            ELSE reshape_shape(context2, SubSeq(context2, 1, 2) \o <<all_head>>)
        projected_context_layer == linear_shape(context_layer, hidden, hidden)
        layer_normed_context_layer == broadcast_shape(hidden_states, projected_context_layer)
    IN  IF IsFault(scores0) \/ IsFault(layer_normed_context_layer)
        THEN [status |-> "fault", relations_keys |-> Fault,
              output |-> Fault, attention_scores |-> Fault]
        ELSE [status |-> "returned", relations_keys |-> relations_keys,
              output |-> layer_normed_context_layer,
              attention_scores |-> attention_scores]

\* table[:n, :n, :] of a stored (length, length, depth) table
slice_table(table, n) ==
    LET len == Min(Cardinality(DOMAIN table), n)
    IN [i \in 0..(len - 1) |-> [j \in 0..(len - 1) |-> table[i][j]]]

slice_in_place(table, n) ==
    [attribute |-> slice_table(table, n), relations |-> slice_table(table, n)]

\* self.relative_positions_embeddings.detach().clone()[:n, :n, :], lines 149
\* and 177: the slice is taken of a copy and bound to a local name, and the
\* attribute keeps the whole table
detach_clone_slice(table, n) ==
    [attribute |-> table, relations |-> slice_table(table, n)]

AttnInputs ==
    [pc : {"new"}, hidden_size : 1..MaxHidden, num_attention_heads : 1..MaxHeads,
     max_relative_position : 0..MaxRelPos, attention_head_size : {0},
     all_head_size : {0}, sublayers : {<<>>}, relative_positions_embeddings : {<<>>},
     error : {"none"}, fwd : {NoForward}]

InitAttn ==
    /\ attn \in AttnInputs
    /\ relpos = Idle
    /\ electra = Idle
    /\ crit = Idle
    /\ MoreIdle

\* __init__, lines 72-76: the divisibility check
NeZhaAttention_init_check ==
    /\ attn.pc = "new"
    /\ IF not_a_multiple(attn.hidden_size, attn.num_attention_heads)
       THEN attn' = [attn EXCEPT !.pc = "raised", !.error = "ValueError"]
       ELSE attn' = [attn EXCEPT !.pc = "checked"]
    /\ UNCHANGED <<relpos, electra, crit, more>>

\* __init__, lines 77-91: the sizes, the sub-layers and the table
NeZhaAttention_init_build ==
    /\ attn.pc = "checked"
    /\ LET head_size == attn.hidden_size \div attn.num_attention_heads
       IN  attn' = [attn EXCEPT
                !.pc = "ready",
                !.attention_head_size = head_size,
                !.all_head_size = attn.num_attention_heads * head_size,
                !.sublayers = NeZhaAttentionSublayers,
                !.relative_positions_embeddings =
                    generate_relative_positions_embeddings(
                        TableLength, head_size, attn.max_relative_position)]
    /\ UNCHANGED <<relpos, electra, crit, more>>

\* forward(hidden_states, attention_mask) with hidden_states of shape
\* (batch, seq, hidden_size) and the additive mask of shape (batch, 1, 1, seq)
NeZhaAttention_forward ==
    /\ attn.pc = "ready"
    /\ \E batch \in 1..MaxBatch, seq \in 1..MaxSeqLen :
        LET r == forward_shapes(attn, <<batch, seq, attn.hidden_size>>, <<batch, 1, 1, seq>>)
        IN  attn' = [attn EXCEPT
                !.relative_positions_embeddings = detach_clone_slice(@, seq).attribute,
                !.fwd =
                    [status |-> r.status, batch_size |-> batch, seq |-> seq,
                     relations_keys |-> r.relations_keys, output |-> r.output,
                     attention_scores |-> r.attention_scores]]
    /\ UNCHANGED <<relpos, electra, crit, more>>

NextAttn ==
    \/ NeZhaAttention_init_check
    \/ NeZhaAttention_init_build
    \/ NeZhaAttention_forward

SpecAttn == InitAttn /\ [][NextAttn]_vars

\* C4: a hidden_size that is no multiple of num_attention_heads ends construction
\* in a ValueError with no sub-layer created, and a constructed layer has
\* num_attention_heads * attention_head_size = hidden_size.
C4_DivisibilityChecked ==
    /\ attn.hidden_size % attn.num_attention_heads # 0 =>
            /\ attn.pc \in {"new", "raised"}
            /\ attn.sublayers = <<>>
    /\ attn.pc = "raised" =>
            /\ attn.error = "ValueError"
            /\ attn.sublayers = <<>>
            /\ attn.hidden_size % attn.num_attention_heads # 0
    /\ attn.pc = "ready" =>
            /\ attn.error = "none"
            /\ attn.num_attention_heads * attn.attention_head_size = attn.hidden_size

C4_Witness ==
    /\ attn.pc = "raised"
    /\ attn.hidden_size = 3
    /\ attn.num_attention_heads = 2
    /\ attn.error = "ValueError"
    /\ attn.sublayers = <<>>

\* C5: a forward call on a sequence longer than the table ends in a fault and
\* returns nothing; on a sequence within the table the sliced table has shape
\* (seq, seq, head_dim) and the call returns.
C5_SequenceLengthBound ==
    attn.fwd.status # "none" =>
        /\ attn.fwd.seq > TableLength =>
                /\ attn.fwd.status = "fault"
                /\ IsFault(attn.fwd.output)
        /\ attn.fwd.seq <= TableLength =>
                /\ attn.fwd.status = "returned"
                /\ attn.fwd.relations_keys
                       = <<attn.fwd.seq, attn.fwd.seq, attn.attention_head_size>>
                /\ attn.fwd.output = <<attn.fwd.batch_size, attn.fwd.seq, attn.hidden_size>>

C5_Witness ==
    /\ attn.pc = "ready"
    /\ attn.num_attention_heads = 2
    /\ attn.fwd.seq = TableLength + 1
    /\ attn.fwd.status = "fault"

\* a call within the table returns
C5_WitnessReturned ==
    /\ attn.fwd.seq = TableLength
    /\ attn.fwd.status = "returned"

(***************************************************************************)
(* ElectraForTotalPretraining                                              *)
(* The tensors input_ids, raw_input_ids, gen_labels and attention_mask     *)
(* have shape [B, L]; every operation on them is elementwise, and the      *)
(* model carries their NumPos positions as one flat index range.           *)
(***************************************************************************)
\* the label of an unmasked position
Sentinel == -100

pad_token_id == 0

\* Token ids: the pad token and one other.  The code compares token ids for
\* equality only.
Tokens == {pad_token_id, pad_token_id + 1}

Pos == 0..(NumPos - 1)

\* an optional argument: None, or the value given
None == <<>>

Some(x) == <<x>>

\* paddle.argmax over the last axis: the first index of the largest value
argmax(vec) ==
    CHOOSE k \in DOMAIN vec :
        /\ \A q \in DOMAIN vec : vec[q] <= vec[k]
        /\ \A q \in DOMAIN vec : vec[q] = vec[k] => k <= q

\* sample_from_softmax, given softmax(logits + gumbel_noise) at each position:
\* the one-hot vector of its argmax
sample_from_softmax(softmax_out) ==
    [p \in DOMAIN softmax_out |->
        one_hot(argmax(softmax_out[p]), Cardinality(DOMAIN softmax_out[p]))]

\* paddle.where(gen_labels == -100, zeros_like, ones_like)
mask_positions(gen_labels) ==
    [p \in DOMAIN gen_labels |-> IF gen_labels[p] = Sentinel THEN 0 ELSE 1]

update_inputs_swapped(sequence, updates, positions) ==
    [p \in DOMAIN sequence |->
        (positions[p] * sequence[p]) + ((1 - positions[p]) * updates[p])]

\* ((ones_like(sequence) - positions) * sequence) + (positions * updates)
update_inputs(sequence, updates, positions) ==
    [p \in DOMAIN sequence |->
        ((1 - positions[p]) * sequence[p]) + (positions[p] * updates[p])]

\* paddle.equal(a, b).astype("int32")
equal_int(a, b) == [p \in DOMAIN a |-> IF a[p] = b[p] THEN 1 ELSE 0]

discriminator_labels_vs_inputs(positions, inputs, updated_inputs, raw_inputs) ==
    [p \in DOMAIN inputs |-> positions[p] * (1 - equal_int(updated_inputs, inputs)[p])]

\* mask_positions * (ones_like(inputs) - equal(updated_inputs, raw_inputs))
discriminator_labels(positions, inputs, updated_inputs, raw_inputs) ==
    [p \in DOMAIN inputs |-> positions[p] * (1 - equal_int(updated_inputs, raw_inputs)[p])]

get_discriminator_inputs(inputs, raw_inputs, softmax_out, gen_labels) ==
    LET sampled_tokens == sample_from_softmax(softmax_out)
        sampled_tokids == [p \in DOMAIN sampled_tokens |-> argmax(sampled_tokens[p])]
        positions == mask_positions(gen_labels)
        updated_inputs == update_inputs(inputs, sampled_tokids, positions)
    IN  [updated_inputs |-> updated_inputs,
         labels |-> discriminator_labels(positions, inputs, updated_inputs, raw_inputs),
         sampled_tokids |-> sampled_tokids]

\* the steps of get_discriminator_inputs in the order of lines 924-938, each
\* with the tensor it produces
get_discriminator_inputs_steps(r) ==
    <<[layer |-> "sample_from_softmax", ids |-> r.sampled_tokids],
      [layer |-> "update_inputs", ids |-> r.updated_inputs],
      [layer |-> "labels", ids |-> r.labels]>>

discriminator_argument_unsubstituted(inputs, disc_inputs) == inputs

\* the first argument of self.discriminator(...), line 1011
discriminator_argument(inputs, disc_inputs) == disc_inputs

\* ElectraModel.forward with attention_mask None, lines 453-457: the positions
\* whose token is the pad token get -1e9 added to their attention scores
padding_positions(input_ids) ==
    [p \in DOMAIN input_ids |-> input_ids[p] = pad_token_id]

assert_never_fails(gen_labels) == TRUE

\* the assertion of forward: gen_labels is not None
gen_labels_is_not_None(gen_labels) == gen_labels # None

NoTensor == [p \in Pos |-> 0]

ElectraInputs ==
    [pc : {"call"},
     input_ids : [Pos -> Tokens],
     raw_input_ids : [Pos -> Tokens],
     gen_labels : {None} \cup {Some(g) : g \in [Pos -> {Sentinel} \cup Tokens]},
     attention_mask : {None} \cup {Some(a) : a \in [Pos -> {0, 1}]},
     calls : {<<>>},
     sampled_tokids : {NoTensor}, disc_inputs : {NoTensor}, disc_labels : {NoTensor},
     out_attention_mask : {[p \in Pos |-> FALSE]},
     disc_padding : {None},
     error : {"none"}]

InitElectra ==
    /\ electra \in ElectraInputs
    /\ relpos = Idle
    /\ attn = Idle
    /\ crit = Idle
    /\ MoreIdle

\* forward, lines 1000-1002
forward_assert ==
    /\ electra.pc = "call"
    /\ IF gen_labels_is_not_None(electra.gen_labels)
       THEN electra' = [electra EXCEPT !.pc = "asserted"]
       ELSE electra' = [electra EXCEPT !.pc = "raised", !.error = "AssertionError"]
    /\ UNCHANGED <<relpos, attn, crit, more>>

\* forward, lines 1004-1005: the generator on input_ids
forward_generator ==
    /\ electra.pc = "asserted"
    /\ electra' = [electra EXCEPT
            !.pc = "generated",
            !.calls = Append(@, [layer |-> "generator", ids |-> electra.input_ids])]
    /\ UNCHANGED <<relpos, attn, crit, more>>

\* forward, lines 1007-1009: sampling, substitution and labelling.  The values
\* of softmax(gen_logits + gumbel_noise) are any ranking of the vocabulary.
forward_get_discriminator_inputs ==
    /\ electra.pc = "generated"
    /\ IF electra.gen_labels = None
       THEN electra' = [electra EXCEPT !.pc = "raised", !.error = "TypeError"]
       ELSE \E softmax_out \in [Pos -> [Tokens -> 0..1]] :
            LET r == get_discriminator_inputs(electra.input_ids, electra.raw_input_ids,
                                              softmax_out, electra.gen_labels[1])
            IN  electra' = [electra EXCEPT
                    !.pc = "sampled",
                    !.calls = @ \o get_discriminator_inputs_steps(r),
                    !.sampled_tokids = r.sampled_tokids,
                    !.disc_inputs = r.updated_inputs,
                    !.disc_labels = r.labels]
    /\ UNCHANGED <<relpos, attn, crit, more>>

\* forward, lines 1011-1020: the discriminator on disc_inputs, the returned
\* attention mask, and the return
forward_discriminator ==
    /\ electra.pc = "sampled"
    /\ electra' = [electra EXCEPT
            !.pc = "returned",
            !.calls = Append(@, [layer |-> "discriminator",
                                 ids |-> discriminator_argument(electra.input_ids,
                                                                electra.disc_inputs)]),
            !.disc_padding =
                IF electra.attention_mask = None
                THEN Some(padding_positions(
                        discriminator_argument(electra.input_ids, electra.disc_inputs)))
                ELSE None,
            !.out_attention_mask =
                IF electra.attention_mask = None
                THEN [p \in Pos |-> electra.input_ids[p] # pad_token_id]
                ELSE [p \in Pos |-> electra.attention_mask[1][p] # 0]]
    /\ UNCHANGED <<relpos, attn, crit, more>>

NextElectra ==
    \/ forward_assert
    \/ forward_generator
    \/ forward_get_discriminator_inputs
    \/ forward_discriminator

SpecElectra == InitElectra /\ [][NextElectra]_vars

ElectraSampled == electra.pc \in {"sampled", "returned"}

\* C6: the discriminator input is the sampled token at every position whose
\* generator label is not -100 and the input_ids token at every position whose
\* label is -100.
C6_SubstituteOnlyMasked ==
    ElectraSampled =>
        \A p \in Pos :
            /\ electra.gen_labels[1][p] # -100 =>
                    electra.disc_inputs[p] = electra.sampled_tokids[p]
            /\ electra.gen_labels[1][p] = -100 =>
                    electra.disc_inputs[p] = electra.input_ids[p]

\* a masked position takes a sampled token that differs from its input, and an
\* unmasked one keeps its input although the sampled token differs
C6_Witness ==
    /\ ElectraSampled
    /\ electra.gen_labels[1][0] # -100
    /\ electra.sampled_tokids[0] # electra.input_ids[0]
    /\ electra.disc_inputs[0] = electra.sampled_tokids[0]
    /\ electra.gen_labels[1][1] = -100
    /\ electra.sampled_tokids[1] # electra.input_ids[1]
    /\ electra.disc_inputs[1] = electra.input_ids[1]

\* C7: the discriminator label is 1 exactly at the masked positions whose
\* substituted token differs from raw_input_ids, and 0 everywhere else.
C7_LabelReplacedTokens ==
    ElectraSampled =>
        \A p \in Pos :
            /\ electra.disc_labels[p] \in {0, 1}
            /\ electra.disc_labels[p] = 1 <=>
                    /\ electra.gen_labels[1][p] # -100
                    /\ electra.disc_inputs[p] # electra.raw_input_ids[p]

\* position 0 is masked and replaced; position 1 is unmasked, differs from the
\* raw token and is still labelled 0
C7_Witness ==
    /\ ElectraSampled
    /\ electra.gen_labels[1][0] # -100
    /\ electra.disc_inputs[0] # electra.raw_input_ids[0]
    /\ electra.disc_inputs[0] = electra.input_ids[0]
    /\ electra.disc_labels[0] = 1
    /\ electra.gen_labels[1][1] = -100
    /\ electra.disc_inputs[1] # electra.raw_input_ids[1]
    /\ electra.disc_labels[1] = 0

\* C10: with gen_labels = None the call ends in an AssertionError, nothing of
\* the generator, the sampling or the discriminator has run, and nothing is returned.
C10_GenLabelsRequired ==
    /\ electra.gen_labels = None =>
            /\ electra.pc \in {"call", "raised"}
            /\ electra.calls = <<>>
            /\ electra.pc = "raised" => electra.error = "AssertionError"
    /\ electra.pc = "raised" => electra.gen_labels = None

C10_Witness ==
    /\ electra.pc = "raised"
    /\ electra.error = "AssertionError"
    /\ electra.gen_labels = None
    /\ electra.calls = <<>>

\* the runs of one forward pass, in the claimed order
ElectraExpectedCalls ==
    <<[layer |-> "generator", ids |-> electra.input_ids],
      [layer |-> "sample_from_softmax", ids |-> electra.sampled_tokids],
      [layer |-> "update_inputs", ids |-> electra.disc_inputs],
      [layer |-> "labels", ids |-> electra.disc_labels],
      [layer |-> "discriminator", ids |-> electra.disc_inputs]>>

\* C11: a forward pass runs the generator on input_ids, the sampling, the
\* substitution, the labelling and then the discriminator on the substituted
\* sequence, in this order; what has run so far is always a prefix of that order.
C11_ForwardOrder ==
    /\ Len(electra.calls) <= 5
    /\ electra.calls = SubSeq(ElectraExpectedCalls, 1, Len(electra.calls))
    /\ electra.pc = "returned" => Len(electra.calls) = 5
    /\ electra.pc = "generated" => Len(electra.calls) = 1
    /\ electra.pc = "sampled" => Len(electra.calls) = 4

\* the discriminator has run on a sequence that differs from input_ids and
\* from raw_input_ids
C11_Witness ==
    /\ electra.pc = "returned"
    /\ electra.calls[5].layer = "discriminator"
    /\ electra.calls[5].ids # electra.input_ids
    /\ electra.calls[5].ids # electra.raw_input_ids
    /\ electra.calls[1].layer = "generator"


(***************************************************************************)
(* ElectraPretrainingCriterion                                             *)
(* Tensors of shape [batch, seq_length] are functions b -> l -> value.     *)
(* The per-position losses the framework computes are integer weights:     *)
(* position k of the flattened tensor weighs 2^k, so that a sum of losses  *)
(* tells which positions entered it.                                       *)
(***************************************************************************)
\* the sum of a flat tensor [0..n-1 -> Int]
RECURSIVE sum_flat(_, _)
sum_flat(f, n) == IF n = 0 THEN 0 ELSE f[n - 1] + sum_flat(f, n - 1)

\* paddle.reshape(x, [-1]) of a [batch, seq_length] tensor
flatten(x, batch, seq_length) ==
    [k \in 0..(batch * seq_length - 1) |-> x[k \div seq_length][k % seq_length]]

\* Tensor.sum() of a [batch, seq_length] tensor
tensor_sum(x, batch, seq_length) ==
    sum_flat(flatten(x, batch, seq_length), batch * seq_length)

\* nn.CrossEntropyLoss(reduction='none') at flat position k: 0 for a label equal
\* to ignore_index (-100, the default), the position's loss otherwise
gen_loss_fct(k, label) == IF label = Sentinel THEN 0 ELSE 2 ^ k

\* nn.BCEWithLogitsLoss(reduction='none') at position (b, l) of the
\* [-1, seq_length] reshape of the discriminator scores
disc_loss_fct(b, l, seq_length) == 2 ^ (b * seq_length + l)

\* a loss value: num / den when divided, the constant num otherwise
Quotient(num, den) == [num |-> num, den |-> den, divided |-> TRUE]

Constant(c) == [num |-> c, den |-> 1, divided |-> FALSE]

always_divide(mask_sum) == FALSE

\* the guard of the generator loss: mask_positions.sum() == 0
mask_sum_is_zero(mask_sum) == mask_sum = 0

\* lines 1068-1082
generator_loss(generator_labels, batch, seq_length) ==
    LET labels == flatten(generator_labels, batch, seq_length)
        gen_loss == [k \in DOMAIN labels |-> gen_loss_fct(k, labels[k])]
        positions == [b \in 0..(batch - 1) |-> [l \in 0..(seq_length - 1) |->
                         IF generator_labels[b][l] = Sentinel THEN 0 ELSE 1]]
        mask_sum == tensor_sum(positions, batch, seq_length)
    IN  IF mask_sum_is_zero(mask_sum)
        THEN Constant(0)
        ELSE Quotient(sum_flat(gen_loss, batch * seq_length), mask_sum)

umask_positions_all(attention_mask, batch, seq_length) ==
    [b \in 0..(batch - 1) |-> [l \in 0..(seq_length - 1) |-> 1]]

\* paddle.where(attention_mask, ones_like, zeros_like), lines 1096-1097
umask_positions(attention_mask, batch, seq_length) ==
    [b \in 0..(batch - 1) |-> [l \in 0..(seq_length - 1) |->
        IF attention_mask[b][l] THEN 1 ELSE 0]]

\* lines 1084-1102
discriminator_loss(attention_mask, batch, seq_length) ==
    LET disc_loss == [b \in 0..(batch - 1) |-> [l \in 0..(seq_length - 1) |->
                         disc_loss_fct(b, l, seq_length)]]
    IN  IF attention_mask # None
        THEN LET use_disc_loss ==
                     [b \in 0..(batch - 1) |-> [l \in 0..(seq_length - 1) |->
                         IF attention_mask[1][b][l] THEN disc_loss[b][l] ELSE 0]]
             IN  Quotient(tensor_sum(use_disc_loss, batch, seq_length),
                          tensor_sum(umask_positions(attention_mask[1], batch, seq_length),
                                     batch, seq_length))
        ELSE LET total_positions ==
                     [b \in 0..(batch - 1) |-> [l \in 0..(seq_length - 1) |-> 1]]
             IN  Quotient(tensor_sum(disc_loss, batch, seq_length),
                          tensor_sum(total_positions, batch, seq_length))

CritShapes ==
    {sh \in (1..MaxCritPos) \X (1..MaxCritPos) : sh[1] * sh[2] <= MaxCritPos}

CritTensors(sh, values) == [0..(sh[1] - 1) -> [0..(sh[2] - 1) -> values]]

CritInputs ==
    UNION {
        [pc : {"call"}, batch : {sh[1]}, seq_length : {sh[2]},
         generator_labels : CritTensors(sh, {Sentinel} \cup Tokens),
         attention_mask : {None} \cup {Some(a) : a \in CritTensors(sh, BOOLEAN)},
         gen_loss : {Constant(0)}, disc_loss : {Constant(0)}]
        : sh \in CritShapes}

InitCrit ==
    /\ crit \in CritInputs
    /\ relpos = Idle
    /\ attn = Idle
    /\ electra = Idle
    /\ MoreIdle

\* ElectraPretrainingCriterion.forward; it returns
\* gen_weight * gen_loss + disc_weight * disc_loss
ElectraPretrainingCriterion_forward ==
    /\ crit.pc = "call"
    /\ crit' = [crit EXCEPT
            !.pc = "returned",
            !.gen_loss = generator_loss(crit.generator_labels, crit.batch, crit.seq_length),
            !.disc_loss = discriminator_loss(crit.attention_mask, crit.batch, crit.seq_length)]
    /\ UNCHANGED <<relpos, attn, electra, more>>

NextCrit == ElectraPretrainingCriterion_forward

SpecCrit == InitCrit /\ [][NextCrit]_vars

\* the positions of the criterion's tensors
CritPositions == (0..(crit.batch - 1)) \X (0..(crit.seq_length - 1))

\* the weight of the loss at position (b, l)
CritWeight(q) == 2 ^ (q[1] * crit.seq_length + q[2])

RECURSIVE WeightOf(_)
WeightOf(S) ==
    IF S = {} THEN 0
    ELSE LET q == CHOOSE x \in S : TRUE IN CritWeight(q) + WeightOf(S \ {q})

CritMasked == {q \in CritPositions : crit.generator_labels[q[1]][q[2]] # -100}

CritAttended == {q \in CritPositions : crit.attention_mask[1][q[1]][q[2]]}

\* C8: with no generator label other than -100 the generator loss is the
\* constant 0 and nothing is divided; otherwise it is the sum of the losses of
\* the labelled positions divided by their number.
C8_GeneratorLoss ==
    crit.pc = "returned" =>
        /\ CritMasked = {} => crit.gen_loss = [num |-> 0, den |-> 1, divided |-> FALSE]
        /\ CritMasked # {} =>
                /\ crit.gen_loss.divided
                /\ crit.gen_loss.den = Cardinality(CritMasked)
                /\ crit.gen_loss.num = WeightOf(CritMasked)

C8_Witness ==
    /\ crit.pc = "returned"
    /\ crit.batch = 2
    /\ crit.seq_length = 2
    /\ CritMasked = {}
    /\ ~crit.gen_loss.divided
    /\ crit.gen_loss.num = 0

\* some but not all positions carry a label
C8_WitnessMasked ==
    /\ crit.pc = "returned"
    /\ crit.batch = 2
    /\ crit.seq_length = 2
    /\ CritMasked = {<<0, 1>>, <<1, 0>>}
    /\ crit.gen_loss = [num |-> 6, den |-> 2, divided |-> TRUE]

\* C9: with an attention mask the discriminator loss is the sum of the losses
\* of the attended positions divided by their number; with attention_mask None
\* it is the sum over all positions divided by batch * seq_length.
C9_DiscriminatorLoss ==
    crit.pc = "returned" =>
        /\ crit.disc_loss.divided
        /\ crit.attention_mask # None =>
                /\ crit.disc_loss.num = WeightOf(CritAttended)
                /\ crit.disc_loss.den = Cardinality(CritAttended)
        /\ crit.attention_mask = None =>
                /\ crit.disc_loss.num = WeightOf(CritPositions)
                /\ crit.disc_loss.den = crit.batch * crit.seq_length

\* a mask that attends to two of four positions
C9_Witness ==
    /\ crit.pc = "returned"
    /\ crit.batch = 2
    /\ crit.seq_length = 2
    /\ crit.attention_mask # None
    /\ CritAttended = {<<0, 0>>, <<1, 1>>}
    /\ crit.disc_loss = [num |-> 9, den |-> 2, divided |-> TRUE]

\* no mask: all four positions
C9_WitnessNone ==
    /\ crit.pc = "returned"
    /\ crit.batch = 2
    /\ crit.seq_length = 2
    /\ crit.attention_mask = None
    /\ crit.disc_loss = [num |-> 15, den |-> 4, divided |-> TRUE]

\* ---------------------------------------------------------------------------
\* Tensors with contents: a shape and the elements in row-major order
\* ---------------------------------------------------------------------------

\* largest num_choices of a multiple-choice head
MaxChoices == 3

Tensor(shape, data) == [shape |-> shape, data |-> data]

\* the result of an operation that raised
FaultTensor == [shape |-> Fault, data |-> <<>>]

\* row-major offset of an index tuple (indices 0-based)
RECURSIVE Ravel(_, _)
Ravel(idx, shape) ==
    IF shape = <<>> THEN 0
    ELSE Head(idx) * Numel(Tail(shape)) + Ravel(Tail(idx), Tail(shape))

\* index tuple of a row-major offset
RECURSIVE Unravel(_, _)
Unravel(k, shape) ==
    IF shape = <<>> THEN <<>>
    ELSE <<k \div Numel(Tail(shape))>> \o Unravel(k % Numel(Tail(shape)), Tail(shape))

\* Tensor.reshape with one dimension given as -1: that dimension is inferred
infer_shape(s, new) ==
    LET known == Numel([k \in 1..Len(new) |-> IF new[k] = -1 THEN 1 ELSE new[k]])
    IN [k \in 1..Len(new) |-> IF new[k] = -1 THEN Numel(s) \div known ELSE new[k]]

\* Tensor.reshape: the elements keep their row-major order
Tensor_reshape(x, new) ==
    IF IsFault(x.shape) THEN FaultTensor
    ELSE LET s == reshape_shape(x.shape, infer_shape(x.shape, new))
         IN IF IsFault(s) THEN FaultTensor ELSE Tensor(s, x.data)

\* paddle.transpose(x, perm): output dimension b is input dimension perm[b]
paddle_transpose(x, perm) ==
    LET s == transpose_shape(x.shape, perm)
    IN IF IsFault(s) THEN FaultTensor
       ELSE Tensor(s, [k \in 0..(Numel(s) - 1) |->
                LET n == Unravel(k, s)
                    o == [a \in 1..Len(perm) |->
                            n[CHOOSE b \in 1..Len(perm) : perm[b] + 1 = a]]
                IN x.data[Ravel(o, x.shape)]])

\* paddle.unstack(x, axis=0): the slices along the first dimension
paddle_unstack(x) ==
    LET rest == Tail(x.shape)
    IN [i \in 1..Head(x.shape) |->
            Tensor(rest, [k \in 0..(Numel(rest) - 1) |-> x.data[(i - 1) * Numel(rest) + k]])]

\* bool(tensor), as taken by "if tensor:": only a one-element tensor has a
\* truth value
Tensor_bool(x) ==
    IF Numel(x.shape) # 1 THEN "raise"
    ELSE IF x.data[0] # 0 THEN "true" ELSE "false"

\* truth value of an optional argument: None is false
truth(opt) == IF opt = None THEN "false" ELSE Tensor_bool(opt[1])

\* ---------------------------------------------------------------------------
\* Question-answering heads (NeZha and DistilBERT)
\* ---------------------------------------------------------------------------

\* self.classifier(sequence_output): element (b, t, k) is the k-th output of
\* the classifier for token t of sequence b
classifier_logits(batch, seq) ==
    Tensor(<<batch, seq, 2>>,
           [k \in 0..(batch * seq * 2 - 1) |->
                <<"logit", k \div (seq * 2), (k \div 2) % seq, k % 2>>])

split_logits_swapped(logits) ==
    LET parts == paddle_unstack(paddle_transpose(logits, <<2, 0, 1>>))
    IN <<parts[2], parts[1]>>

\* logits = paddle.transpose(logits, perm=[2, 0, 1]);
\* start_logits, end_logits = paddle.unstack(x=logits, axis=0)
split_logits(logits) ==
    paddle_unstack(paddle_transpose(logits, <<2, 0, 1>>))

QAInputs ==
    [pc : {"call"}, model : {"nezha", "distilbert"},
     batch : 1..MaxBatch, seq : 1..MaxSeqLen,
     start_logits : {FaultTensor}, end_logits : {FaultTensor}]

InitQA ==
    /\ qa \in QAInputs
    /\ relpos = Idle /\ attn = Idle /\ electra = Idle /\ crit = Idle
    /\ enc = Idle /\ nezha = Idle /\ mc = Idle /\ pre = Idle /\ emask = Idle /\ av = Idle
    /\ tie = Idle /\ sampler = Idle

QA_forward(model) ==
    /\ qa # Idle
    /\ qa.pc = "call"
    /\ qa.model = model
    /\ LET parts == split_logits(classifier_logits(qa.batch, qa.seq))
       IN qa' = [qa EXCEPT !.pc = "returned",
                           !.start_logits = parts[1],
                           !.end_logits = parts[2]]
    /\ UNCHANGED <<relpos, attn, electra, crit, enc, nezha, mc, pre, emask, av, tie, sampler>>

NeZhaForQuestionAnswering_forward == QA_forward("nezha")

DistilBertForQuestionAnswering_forward == QA_forward("distilbert")

\* ---------------------------------------------------------------------------
\* NeZhaForMultipleChoice
\* ---------------------------------------------------------------------------

\* input_ids of shape (batch, choices, seq); every token is named by its place
choice_input_ids(batch, choices, seq) ==
    Tensor(<<batch, choices, seq>>,
           [k \in 0..(batch * choices * seq - 1) |->
                <<k \div (choices * seq), (k \div seq) % choices, k % seq>>])

\* a token_type_ids or attention_mask tensor filled with one value
full_like(x, value) == Tensor(x.shape, [k \in DOMAIN x.data |-> value])

\* x.reshape((-1, x.shape[-1]))
flatten_choices(x) == Tensor_reshape(x, <<-1, x.shape[Len(x.shape)]>>)

\* "if x: x = x.reshape(...)" for an optional argument whose truth value exists
reshape_if_true(opt) ==
    IF truth(opt) = "true" THEN Some(flatten_choices(opt[1])) ELSE opt

\* self.classifier(self.dropout(pooled_output)) of self.nezha(input_ids,
\* token_type_ids, attention_mask): one score per row of input_ids, named by
\* the tokens of the row; an optional argument that is not shaped like
\* input_ids makes the base model raise
classifier_scores(input_ids, token_type_ids, attention_mask) ==
    IF \/ IsFault(input_ids.shape)
       \/ Len(input_ids.shape) # 2
       \/ token_type_ids # None /\ token_type_ids[1].shape # input_ids.shape
       \/ attention_mask # None /\ attention_mask[1].shape # input_ids.shape
    THEN FaultTensor
    ELSE LET rows == input_ids.shape[1]
             cols == input_ids.shape[2]
         IN Tensor(<<rows, 1>>,
                   [r \in 0..(rows - 1) |->
                        [s \in 1..cols |-> input_ids.data[r * cols + s - 1]]])

\* the shape of an optional argument as the base model receives it
passed_shape(opt) == IF opt = None THEN None ELSE Some(opt[1].shape)

logits_new_shape_swapped(num_choices) == <<num_choices, -1>>

\* the shape given to logits.reshape
logits_new_shape(num_choices) == <<-1, num_choices>>

MCInputs ==
    {[pc |-> "call", num_choices |-> n, input_ids |-> ids,
      token_type_ids |-> tt, attention_mask |-> am,
      base_shape |-> Fault, passed |-> <<>>,
      logits |-> FaultTensor, error |-> "none"] :
        n \in 1..MaxChoices,
        ids \in {choice_input_ids(b, c, s) :
                    b \in 1..MaxBatch, c \in 1..MaxChoices, s \in 1..MaxLength},
        tt \in {"None", "zeros", "ones"}, am \in {"None", "zeros", "ones"}}

\* the optional argument a call was made with
optional_like(x, kind) ==
    IF kind = "None" THEN None
    ELSE Some(full_like(x, IF kind = "ones" THEN 1 ELSE 0))

InitMC ==
    /\ mc \in MCInputs
    /\ relpos = Idle /\ attn = Idle /\ electra = Idle /\ crit = Idle
    /\ enc = Idle /\ nezha = Idle /\ qa = Idle /\ pre = Idle /\ emask = Idle /\ av = Idle
    /\ tie = Idle /\ sampler = Idle

\* forward up to the two "if" statements: either of them raises for a tensor
\* of more than one element
NeZhaForMultipleChoice_forward_raise ==
    /\ mc # Idle
    /\ mc.pc = "call"
    /\ \/ truth(optional_like(mc.input_ids, mc.token_type_ids)) = "raise"
       \/ truth(optional_like(mc.input_ids, mc.attention_mask)) = "raise"
    /\ mc' = [mc EXCEPT !.pc = "raised", !.error = "ambiguous truth value"]
    /\ UNCHANGED <<relpos, attn, electra, crit, enc, nezha, qa, pre, emask, av, tie, sampler>>

\* forward when both "if" statements have a truth value
NeZhaForMultipleChoice_forward ==
    /\ mc # Idle
    /\ mc.pc = "call"
    /\ LET tt0 == optional_like(mc.input_ids, mc.token_type_ids)
           am0 == optional_like(mc.input_ids, mc.attention_mask)
           input_ids == flatten_choices(mc.input_ids)
           logits == classifier_scores(input_ids, reshape_if_true(tt0), reshape_if_true(am0))
           reshaped_logits == Tensor_reshape(logits, logits_new_shape(mc.num_choices))
       IN /\ truth(tt0) # "raise"
          /\ truth(am0) # "raise"
          /\ mc' = [mc EXCEPT
                      !.pc = IF IsFault(reshaped_logits.shape) THEN "raised" ELSE "returned",
                      !.base_shape = IF IsFault(logits.shape) THEN Fault ELSE input_ids.shape,
                      !.passed = <<passed_shape(reshape_if_true(tt0)),
                                   passed_shape(reshape_if_true(am0))>>,
                      !.logits = reshaped_logits,
                      !.error = IF IsFault(logits.shape) THEN "base model"
                                ELSE IF IsFault(reshaped_logits.shape) THEN "reshape"
                                ELSE "none"]
    /\ UNCHANGED <<relpos, attn, electra, crit, enc, nezha, qa, pre, emask, av, tie, sampler>>

\* ---------------------------------------------------------------------------
\* The task heads as one specification
\* ---------------------------------------------------------------------------

InitHeads == InitQA \/ InitMC

NextHeads ==
    \/ NeZhaForQuestionAnswering_forward
    \/ DistilBertForQuestionAnswering_forward
    \/ NeZhaForMultipleChoice_forward_raise
    \/ NeZhaForMultipleChoice_forward

SpecHeads == InitHeads /\ [][NextHeads]_vars

\* ---------------------------------------------------------------------------
\* Claims about the task heads
\* ---------------------------------------------------------------------------

\* C12: NeZhaForMultipleChoice.forward, given input_ids of shape
\* (batch, num_choices, seq), runs the base model on (batch * num_choices, seq)
\* and returns logits of shape (batch, num_choices) whose entry (b, c) is the
\* score of flattened row b * num_choices + c, i.e. of the tokens
\* input_ids[b, c, :].
C12_MultipleChoiceShapes ==
    (/\ mc # Idle
     /\ mc.pc = "returned"
     /\ mc.input_ids.shape[2] = mc.num_choices) =>
        LET B == mc.input_ids.shape[1]
            C == mc.num_choices
            S == mc.input_ids.shape[3]
        IN /\ mc.base_shape = <<B * C, S>>
           /\ mc.logits.shape = <<B, C>>
           /\ \A b \in 0..(B - 1) : \A c \in 0..(C - 1) :
                mc.logits.data[b * C + c] = [s \in 1..S |-> <<b, c, s - 1>>]

\* two sequences of three choices of two tokens each
C12_Witness ==
    /\ mc # Idle
    /\ mc.pc = "returned"
    /\ mc.num_choices = 3
    /\ mc.input_ids.shape = <<2, 3, 2>>
    /\ mc.base_shape = <<6, 2>>
    /\ mc.logits.shape = <<2, 3>>
    /\ mc.logits.data[4] = <<<<1, 1, 0>>, <<1, 1, 1>>>>

\* C13: the question-answering heads of NeZha and DistilBERT return
\* start_logits and end_logits of shape (batch, seq) with
\* start_logits[b, t] = logits[b, t, 0] and end_logits[b, t] = logits[b, t, 1].
C13_StartEndSplit ==
    (qa # Idle /\ qa.pc = "returned") =>
        /\ qa.start_logits.shape = <<qa.batch, qa.seq>>
        /\ qa.end_logits.shape = <<qa.batch, qa.seq>>
        /\ \A b \in 0..(qa.batch - 1) : \A tk \in 0..(qa.seq - 1) :
                /\ qa.start_logits.data[b * qa.seq + tk] = <<"logit", b, tk, 0>>
                /\ qa.end_logits.data[b * qa.seq + tk] = <<"logit", b, tk, 1>>

\* NeZha head, two sequences of three tokens
C13_Witness ==
    /\ qa # Idle
    /\ qa.pc = "returned"
    /\ qa.model = "nezha"
    /\ qa.batch = 2
    /\ qa.seq = 3
    /\ qa.start_logits.data[4] = <<"logit", 1, 1, 0>>
    /\ qa.end_logits.data[4] = <<"logit", 1, 1, 1>>

\* DistilBERT head, two sequences of three tokens
C13_WitnessDistilBert ==
    /\ qa # Idle
    /\ qa.pc = "returned"
    /\ qa.model = "distilbert"
    /\ qa.batch = 2
    /\ qa.seq = 3
    /\ qa.end_logits.data[5] = <<"logit", 1, 2, 1>>

\* ---------------------------------------------------------------------------
\* NeZhaModel.forward and NeZhaEncoder.forward
\* ---------------------------------------------------------------------------

\* largest num_hidden_layers
MaxLayers == 3

\* largest batch * seq of a NeZhaModel call
MaxMaskPos == 4

\* largest scaled logit of a position
BigLogit == 10000

\* the factor of (1.0 - extended_attention_mask) * -10000.0
MaskValue == -10000

\* the scaled logits (content plus position, divided by sqrt(head_dim)) a
\* position can have
Logits == {0, BigLogit}

ones_like(x) == full_like(x, 1)

\* Tensor.unsqueeze(axis): a dimension of size 1 is inserted before axis
unsqueeze(x, axis) ==
    Tensor(SubSeq(x.shape, 1, axis) \o <<1>> \o SubSeq(x.shape, axis + 1, Len(x.shape)),
           x.data)

\* scalar - tensor
rsub(x, scalar) == Tensor(x.shape, [k \in DOMAIN x.data |-> scalar - x.data[k]])

\* tensor * scalar
scale(x, scalar) == Tensor(x.shape, [k \in DOMAIN x.data |-> x.data[k] * scalar])

extend_attention_mask_unshifted(attention_mask) ==
    scale(unsqueeze(unsqueeze(attention_mask, 1), 2), MaskValue)

\* attention_mask.unsqueeze(1).unsqueeze(2), then (1.0 - mask) * -10000.0
extend_attention_mask(attention_mask) ==
    scale(rsub(unsqueeze(unsqueeze(attention_mask, 1), 2), 1), MaskValue)

\* self.embeddings(input_ids, token_type_ids), as a term
embedding_output == <<"embeddings", 0, <<>>>>

\* the hidden states a layer returns, as a term over its input
layer_hidden_states(k, hidden_states) == <<"layer", k, hidden_states>>

\* the attention scores a layer returns, as a term over its input
layer_attention_scores(k, hidden_states) == <<"attention_scores", k, hidden_states>>

\* self.pooler(sequence_output), as a term
pooler(sequence_output) == <<"pooler", 0, sequence_output>>

\* attention_scores + attention_mask for head 0 and query position 0 of every
\* sequence: key position s of sequence b gets the mask entry (b, 0, 0, s)
add_attention_mask(scaled, attention_mask) ==
    Tensor(scaled.shape,
           [k \in DOMAIN scaled.data |-> scaled.data[k] + attention_mask.data[k]])

layer_input_first(all_encoder_layers, i) == all_encoder_layers[1]

\* all_encoder_layers[i], the argument of layer i
layer_input(all_encoder_layers, i) == all_encoder_layers[i + 1]

\* input_ids that end in pads padding tokens in every sequence
padded_input_ids(batch, seq, pads) ==
    Tensor(<<batch, seq>>,
           [k \in 0..(batch * seq - 1) |->
                IF k % seq >= seq - pads THEN pad_token_id ELSE pad_token_id + 1])

\* the shapes (batch, seq) of a call
NeZhaShapes ==
    {sh \in (1..MaxBatch) \X (1..MaxMaskPos) : sh[1] * sh[2] <= MaxMaskPos}

NeZhaInputs ==
    {[pc |-> "call", input_ids |-> ids, attention_mask |-> am,
      num_hidden_layers |-> n,
      extended_attention_mask |-> FaultTensor,
      sequence_output |-> <<>>, pooled_output |-> <<>>] :
        n \in 0..MaxLayers,
        ids \in UNION {{padded_input_ids(sh[1], sh[2], p) : p \in 0..Min(1, sh[2] - 1)} :
                        sh \in NeZhaShapes},
        am \in {None} \cup
               UNION {{Some(Tensor(sh, d)) : d \in [0..(sh[1] * sh[2] - 1) -> {0, 1}]} :
                        sh \in NeZhaShapes}}

InitNeZha ==
    /\ nezha \in {x \in NeZhaInputs :
                    x.attention_mask # None => x.attention_mask[1].shape = x.input_ids.shape}
    /\ enc = Idle
    /\ relpos = Idle /\ attn = Idle /\ electra = Idle /\ crit = Idle
    /\ mc = Idle /\ qa = Idle /\ pre = Idle /\ emask = Idle /\ av = Idle
    /\ tie = Idle /\ sampler = Idle

\* NeZhaModel.forward up to the call of the encoder (lines 611-621)
NeZhaModel_forward_call_encoder ==
    /\ nezha # Idle
    /\ nezha.pc = "call"
    /\ LET attention_mask == IF nezha.attention_mask = None
                             THEN ones_like(nezha.input_ids)
                             ELSE nezha.attention_mask[1]
           extended_attention_mask == extend_attention_mask(attention_mask)
       IN /\ nezha' = [nezha EXCEPT !.pc = "encoder",
                                    !.extended_attention_mask = extended_attention_mask]
          /\ enc' = [pc |-> "loop", i |-> 0,
                     hidden_states |-> embedding_output,
                     attention_mask |-> extended_attention_mask,
                     all_encoder_layers |-> <<>>,
                     all_encoder_att |-> <<>>,
                     layer_calls |-> <<>>,
                     layer_att |-> FaultTensor]
    /\ UNCHANGED <<relpos, attn, electra, crit, mc, qa, pre, emask, av, tie, sampler>>

\* one iteration of the loop of NeZhaEncoder.forward (lines 269-272); the
\* scaled logits of the layer are any values of Logits
NeZhaEncoder_forward_iteration ==
    /\ enc # Idle
    /\ enc.pc = "loop"
    /\ enc.i < nezha.num_hidden_layers
    /\ \E scaled \in [DOMAIN nezha.input_ids.data -> Logits] :
        LET all_encoder_layers == Append(enc.all_encoder_layers, enc.hidden_states)
            input == layer_input(all_encoder_layers, enc.i)
        IN enc' = [enc EXCEPT
                     !.all_encoder_layers = all_encoder_layers,
                     !.layer_calls = Append(@, <<enc.i, input>>),
                     !.hidden_states = layer_hidden_states(enc.i, input),
                     !.layer_att = add_attention_mask(Tensor(nezha.input_ids.shape, scaled),
                                                      enc.attention_mask),
                     !.all_encoder_att = Append(@, layer_attention_scores(enc.i, input)),
                     !.i = enc.i + 1]
    /\ UNCHANGED <<nezha, relpos, attn, electra, crit, mc, qa, pre, emask, av, tie, sampler>>

\* the end of NeZhaEncoder.forward (lines 273-274)
NeZhaEncoder_forward_return ==
    /\ enc # Idle
    /\ enc.pc = "loop"
    /\ enc.i >= nezha.num_hidden_layers
    /\ enc' = [enc EXCEPT !.pc = "returned",
                          !.all_encoder_layers = Append(@, enc.hidden_states)]
    /\ UNCHANGED <<nezha, relpos, attn, electra, crit, mc, qa, pre, emask, av, tie, sampler>>

\* NeZhaModel.forward after the encoder (lines 623-626)
NeZhaModel_forward_return ==
    /\ nezha # Idle
    /\ nezha.pc = "encoder"
    /\ enc.pc = "returned"
    /\ LET encoder_outputs == enc.all_encoder_layers
           sequence_output == encoder_outputs[Len(encoder_outputs)]
       IN nezha' = [nezha EXCEPT !.pc = "returned",
                                 !.sequence_output = sequence_output,
                                 !.pooled_output = pooler(sequence_output)]
    /\ UNCHANGED <<enc, relpos, attn, electra, crit, mc, qa, pre, emask, av, tie, sampler>>

NextNeZha ==
    \/ NeZhaModel_forward_call_encoder
    \/ NeZhaEncoder_forward_iteration
    \/ NeZhaEncoder_forward_return
    \/ NeZhaModel_forward_return

SpecNeZha == InitNeZha /\ [][NextNeZha]_vars

\* ---------------------------------------------------------------------------
\* Claims about NeZhaModel.forward and NeZhaEncoder.forward
\* ---------------------------------------------------------------------------

\* C14: NeZhaEncoder.forward with N layers applies the layers in index order,
\* layer k receiving the output of layer k-1 (layer 0 the embedding output),
\* and returns N+1 hidden states (the input, then each layer's output in order)
\* and N attention-score snapshots, one per layer in order.
C14_LayersInOrder ==
    enc # Idle =>
        /\ \A k \in 1..Len(enc.layer_calls) :
                enc.layer_calls[k] =
                    <<k - 1, IF k = 1 THEN embedding_output
                             ELSE <<"layer", k - 2, enc.layer_calls[k - 1][2]>>>>
        /\ enc.pc = "returned" =>
                /\ Len(enc.layer_calls) = nezha.num_hidden_layers
                /\ Len(enc.all_encoder_layers) = nezha.num_hidden_layers + 1
                /\ Len(enc.all_encoder_att) = nezha.num_hidden_layers
                /\ enc.all_encoder_layers[1] = embedding_output
                /\ \A k \in 1..nezha.num_hidden_layers :
                        /\ enc.all_encoder_layers[k + 1] =
                                <<"layer", k - 1, enc.all_encoder_layers[k]>>
                        /\ enc.all_encoder_att[k] =
                                <<"attention_scores", k - 1, enc.all_encoder_layers[k]>>

\* an encoder of three layers has returned
C14_Witness ==
    /\ enc # Idle
    /\ enc.pc = "returned"
    /\ nezha.num_hidden_layers = 3
    /\ Len(enc.all_encoder_layers) = 4
    /\ enc.all_encoder_layers[3] = <<"layer", 1, <<"layer", 0, embedding_output>>>>
    /\ enc.all_encoder_att[3][2] = 2

\* upper bounds of e^d for d = 0..13
ExpUpper == <<1, 3, 8, 21, 55, 149, 404, 1097, 2981, 8104, 22027, 59875, 162755, 442414>>

\* an upper bound of e^d; for d >= 14 any number above 10^6 (e^14 > 1202604)
exp_upper(d) ==
    IF d < 0 THEN 1 ELSE IF d >= Len(ExpUpper) THEN 1202605 ELSE ExpUpper[d + 1]

\* an upper bound of the sum of e^(x[k] - x[p]) over the positions k of ks
RECURSIVE exp_sum_upper(_, _, _)
exp_sum_upper(x, p, ks) ==
    IF ks = {} THEN 0
    ELSE LET k == CHOOSE q \in ks : TRUE
         IN exp_upper(x[k] - x[p]) + exp_sum_upper(x, p, ks \ {k})

\* the key positions of the sequence that position p belongs to
SameSequence(p) ==
    {k \in DOMAIN nezha.input_ids.data :
        k \div nezha.input_ids.shape[2] = p \div nezha.input_ids.shape[2]}

\* C17: every position whose additive mask is the large negative value gets
\* softmax weight below 1e-6, whatever the logits of the masked and unmasked
\* positions. The weight of p is 1 / sum_k e^(x[k] - x[p]), so it is below
\* 1e-6 only if that sum, and so its upper bound, exceeds 10^6.
C17_MaskedWeightBelowEpsilon ==
    (enc # Idle /\ ~IsFault(enc.layer_att.shape)) =>
        \A p \in DOMAIN enc.layer_att.data :
            enc.attention_mask.data[p] = -10000 =>
                exp_sum_upper(enc.layer_att.data, p, SameSequence(p)) > 1000000

C19_WitnessNone ==
    /\ nezha # Idle
    /\ nezha.pc = "returned"
    /\ nezha.attention_mask = None
    /\ nezha.input_ids.shape = <<1, 3>>
    /\ nezha.input_ids.data[2] = pad_token_id
    /\ nezha.extended_attention_mask.data[2] = 0

\* ---------------------------------------------------------------------------
\* ElectraModel.forward and DistilBertModel.forward: the attention mask
\* ---------------------------------------------------------------------------

\* the factor of (input_ids == pad_token_id) * -1e9
PadMaskValue == -1000000000

\* x broadcast to shape: a dimension of size 1, or a missing leading
\* dimension, is repeated
broadcast_to(x, shape) ==
    LET off == Len(shape) - Len(x.shape)
    IN Tensor(shape,
              [k \in 0..(Numel(shape) - 1) |->
                LET idx == Unravel(k, shape)
                    own == [a \in 1..Len(x.shape) |->
                                IF x.shape[a] = 1 THEN 0 ELSE idx[a + off]]
                IN x.data[Ravel(own, x.shape)]])

\* paddle.unsqueeze((input_ids == self.pad_token_id).astype(...) * -1e9, axis=[1, 2])
pad_attention_mask(input_ids) ==
    unsqueeze(unsqueeze(
        Tensor(input_ids.shape,
               [k \in DOMAIN input_ids.data |->
                    IF input_ids.data[k] = pad_token_id THEN PadMaskValue ELSE 0]), 1), 2)

\* nn.TransformerEncoder on its src_mask: a bool or int mask becomes
\* (mask - 1) * 1e9, a float mask is taken as it is
convert_attention_mask(attn_mask, dtype) ==
    IF dtype = "float32" THEN attn_mask
    ELSE scale(rsub(attn_mask, 1), PadMaskValue)

\* what nn.TransformerEncoder adds to the attention scores of shape
\* (batch, heads, seq, seq), here for one head: the mask broadcast to them
encoder_added_to_scores(attn_mask, dtype, batch, seq) ==
    LET shape == broadcast_shape(<<batch, 1, seq, seq>>, attn_mask.shape)
    IN IF shape # <<batch, 1, seq, seq>> THEN FaultTensor
       ELSE broadcast_to(convert_attention_mask(attn_mask, dtype), shape)

EncoderMaskInputs ==
    {[pc |-> "call", model |-> model, input_ids |-> ids, attention_mask |-> am,
      dtype |-> dtype, added |-> FaultTensor] :
        model \in {"electra", "distilbert"},
        dtype \in {"float32", "int64"},
        ids \in UNION {{padded_input_ids(sh[1], sh[2], p) : p \in 0..Min(1, sh[2] - 1)} :
                        sh \in NeZhaShapes},
        am \in {None} \cup
               UNION {{Some(Tensor(sh, d)) : d \in [0..(sh[1] * sh[2] - 1) -> {0, 1}]} :
                        sh \in NeZhaShapes}}

InitEncoderMask ==
    /\ emask \in {x \in EncoderMaskInputs :
                    /\ x.attention_mask # None => x.attention_mask[1].shape = x.input_ids.shape
                    /\ x.attention_mask = None => x.dtype = "float32"}
    /\ relpos = Idle /\ attn = Idle /\ electra = Idle /\ crit = Idle
    /\ enc = Idle /\ nezha = Idle /\ mc = Idle /\ qa = Idle /\ pre = Idle /\ av = Idle
    /\ tie = Idle /\ sampler = Idle

\* forward of either model: the mask is built from the padding tokens when it
\* is None, and given to the encoder as it is otherwise
Model_forward(model) ==
    /\ emask # Idle
    /\ emask.pc = "call"
    /\ emask.model = model
    /\ LET attention_mask == IF emask.attention_mask = None
                             THEN pad_attention_mask(emask.input_ids)
                             ELSE emask.attention_mask[1]
       IN emask' = [emask EXCEPT
                      !.pc = "returned",
                      !.added = encoder_added_to_scores(attention_mask, emask.dtype,
                                    emask.input_ids.shape[1], emask.input_ids.shape[2])]
    /\ UNCHANGED <<relpos, attn, electra, crit, enc, nezha, mc, qa, pre, av, tie, sampler>>

ElectraModel_forward == Model_forward("electra")

DistilBertModel_forward == Model_forward("distilbert")

NextEncoderMask == ElectraModel_forward \/ DistilBertModel_forward

SpecEncoderMask == InitEncoderMask /\ [][NextEncoderMask]_vars

\* C18: in ElectraModel.forward and DistilBertModel.forward, for a
\* caller-supplied attention_mask of 0/1 values and shape [batch, seq], every
\* position whose mask value is 0 has its attention score set to -infinity (at
\* least as low as the -1e9 of the padding mask) and every position whose mask
\* value is 1 has its score unchanged.
C18_SuppliedMask ==
    (emask # Idle /\ emask.pc = "returned" /\ emask.attention_mask # None) =>
        LET B == emask.input_ids.shape[1]
            S == emask.input_ids.shape[2]
        IN /\ ~IsFault(emask.added.shape)
           /\ \A b \in 0..(B - 1) : \A i \in 0..(S - 1) : \A j \in 0..(S - 1) :
                LET a == emask.added.data[(b * S + i) * S + j]
                IN IF emask.attention_mask[1].data[b * S + j] = 0
                   THEN a <= -1000000000
                   ELSE a = 0

\* the padding mask of a call without attention_mask: pads are hidden
C18_NoneBranch ==
    (emask # Idle /\ emask.pc = "returned" /\ emask.attention_mask = None) =>
        LET B == emask.input_ids.shape[1]
            S == emask.input_ids.shape[2]
        IN /\ emask.added.shape = <<B, 1, S, S>>
           /\ \A b \in 0..(B - 1) : \A i \in 0..(S - 1) : \A j \in 0..(S - 1) :
                emask.added.data[(b * S + i) * S + j] =
                    IF emask.input_ids.data[b * S + j] = pad_token_id
                    THEN -1000000000 ELSE 0

\* a float mask that hides the second of two tokens is added as it is
C18_FloatMaskAdded ==
    /\ emask # Idle
    /\ emask.pc = "returned"
    /\ emask.dtype = "float32"
    /\ emask.input_ids.shape = <<1, 2>>
    /\ emask.attention_mask # None
    /\ emask.attention_mask[1].data = [k \in 0..1 |-> 1 - k]
    /\ emask.added.data = [k \in 0..3 |-> 1 - (k % 2)]

\* ---------------------------------------------------------------------------
\* NeZhaForPretraining.forward: the losses
\* ---------------------------------------------------------------------------

\* nn.CrossEntropyLoss(ignore_index=-1)
ignore_index == -1

is_ignored_never(label, ignore) == FALSE

\* a label the cross entropy skips
is_ignored(label, ignore) == label = ignore

\* a label that is neither skipped nor a class: the cross entropy has no
\* logit for it
out_of_range(label, ignore, classes) == ~is_ignored(label, ignore) /\ label \notin classes

\* nn.CrossEntropyLoss(ignore_index=ignore) with the default mean reduction on
\* flat labels: the sum of the losses of the labels not skipped, divided by
\* their number; position k weighs 2^k
cross_entropy_mean(labels, n, ignore) ==
    Quotient(sum_flat([k \in 0..(n - 1) |->
                          IF is_ignored(labels[k], ignore) THEN 0 ELSE 2 ^ k], n),
             sum_flat([k \in 0..(n - 1) |->
                          IF is_ignored(labels[k], ignore) THEN 0 ELSE 1], n))

forward_branch_loss_first(masked_lm_labels, next_sentence_label) ==
    IF masked_lm_labels # None /\ next_sentence_label # None
    THEN "masked_lm_loss + next_sentence_loss"
    ELSE IF masked_lm_labels # None THEN "masked_lm_loss"
    ELSE IF next_sentence_label # None THEN "next_sentence_loss"
    ELSE "scores"

\* the if / elif / else of lines 773-788: what forward returns
forward_branch(masked_lm_labels, next_sentence_label) ==
    IF masked_lm_labels # None /\ next_sentence_label # None
    THEN "masked_lm_loss + next_sentence_loss"
    ELSE IF masked_lm_labels # None THEN "masked_lm_loss"
    ELSE "scores"

PreInputs ==
    UNION {
        [pc : {"call"}, batch : {sh[1]}, seq_length : {sh[2]},
         masked_lm_labels : {None} \cup
            {Some(x) : x \in CritTensors(sh, {Sentinel, ignore_index} \cup Tokens)},
         next_sentence_label : {None} \cup
            {Some([b \in 0..(sh[1] - 1) |-> v]) : v \in {0, 1}},
         returns : {"nothing"},
         masked_lm_loss : {Constant(0)}, next_sentence_loss : {Constant(0)},
         error : {"none"}]
        : sh \in CritShapes}

InitPre ==
    /\ pre \in PreInputs
    /\ relpos = Idle /\ attn = Idle /\ electra = Idle /\ crit = Idle
    /\ enc = Idle /\ nezha = Idle /\ mc = Idle /\ qa = Idle /\ emask = Idle /\ av = Idle
    /\ tie = Idle /\ sampler = Idle

\* the flat masked-LM labels of the call
pre_labels == flatten(pre.masked_lm_labels[1], pre.batch, pre.seq_length)

\* some masked-LM label is neither ignore_index nor a token of the vocabulary
pre_label_out_of_range ==
    \E k \in DOMAIN pre_labels : out_of_range(pre_labels[k], ignore_index, Tokens)

\* forward with masked_lm_labels (lines 773-786): the masked-LM loss, and the
\* next-sentence loss when next_sentence_label is given
NeZhaForPretraining_forward_loss ==
    /\ pre # Idle
    /\ pre.pc = "call"
    /\ pre.masked_lm_labels # None
    /\ ~pre_label_out_of_range
    /\ pre' = [pre EXCEPT
                !.pc = "returned",
                !.returns = forward_branch(pre.masked_lm_labels, pre.next_sentence_label),
                !.masked_lm_loss =
                    cross_entropy_mean(pre_labels, pre.batch * pre.seq_length, ignore_index),
                !.next_sentence_loss =
                    IF pre.next_sentence_label = None THEN Constant(0)
                    ELSE cross_entropy_mean(pre.next_sentence_label[1], pre.batch,
                                            ignore_index)]
    /\ UNCHANGED <<relpos, attn, electra, crit, enc, nezha, mc, qa, emask, av, tie, sampler>>

\* forward with a masked-LM label the loss has no class for: the framework
\* either rejects the label or reads a logit that does not exist, so the call
\* raises or returns a loss that counts the position with an undefined value
NeZhaForPretraining_forward_bad_label ==
    /\ pre # Idle
    /\ pre.pc = "call"
    /\ pre.masked_lm_labels # None
    /\ pre_label_out_of_range
    /\ \/ pre' = [pre EXCEPT !.pc = "raised", !.error = "label out of range"]
       \/ pre' = [pre EXCEPT
                    !.pc = "returned",
                    !.returns = forward_branch(pre.masked_lm_labels, pre.next_sentence_label),
                    !.error = "undefined loss value",
                    !.masked_lm_loss =
                        cross_entropy_mean(pre_labels, pre.batch * pre.seq_length,
                                           ignore_index),
                    !.next_sentence_loss =
                        IF pre.next_sentence_label = None THEN Constant(0)
                        ELSE cross_entropy_mean(pre.next_sentence_label[1], pre.batch,
                                                ignore_index)]
    /\ UNCHANGED <<relpos, attn, electra, crit, enc, nezha, mc, qa, emask, av, tie, sampler>>

\* forward without masked_lm_labels (line 788): the two score tensors
NeZhaForPretraining_forward_scores ==
    /\ pre # Idle
    /\ pre.pc = "call"
    /\ pre.masked_lm_labels = None
    /\ pre' = [pre EXCEPT !.pc = "returned", !.returns = forward_branch(pre.masked_lm_labels, pre.next_sentence_label)]
    /\ UNCHANGED <<relpos, attn, electra, crit, enc, nezha, mc, qa, emask, av, tie, sampler>>

NextPre ==
    \/ NeZhaForPretraining_forward_loss
    \/ NeZhaForPretraining_forward_bad_label
    \/ NeZhaForPretraining_forward_scores

\* the two pretraining losses as one specification
InitPretrainingLoss == InitCrit \/ InitPre

NextPretrainingLoss == NextCrit \/ NextPre

SpecPretrainingLoss == InitPretrainingLoss /\ [][NextPretrainingLoss]_vars

\* ---------------------------------------------------------------------------
\* Claims about the pretraining losses
\* ---------------------------------------------------------------------------

\* the flat positions of the call of NeZhaForPretraining
PrePositions == 0..(pre.batch * pre.seq_length - 1)

RECURSIVE PreWeightOf(_)
PreWeightOf(S) ==
    IF S = {} THEN 0
    ELSE LET k == CHOOSE x \in S : TRUE IN 2 ^ k + PreWeightOf(S \ {k})

\* the criterion has returned a generator loss over exactly the positions whose
\* label is not -100
CritExcludesSentinel ==
    crit.pc = "returned" =>
        /\ crit.gen_loss.num = WeightOf(CritMasked)
        /\ CritMasked # {} => crit.gen_loss.den = Cardinality(CritMasked)

\* C20 as stated: a position whose masked-LM label is -100 is excluded from the
\* masked-LM loss and causes no error, in ElectraPretrainingCriterion and in
\* NeZhaForPretraining.
C20_Original ==
    /\ CritExcludesSentinel
    /\ (pre # Idle /\ pre.pc # "call" /\ pre.masked_lm_labels # None) =>
            /\ pre.pc = "returned"
            /\ pre.error = "none"
            /\ pre.masked_lm_loss.num = PreWeightOf({k \in PrePositions : pre_labels[k] # -100})

\* C20, amended: ElectraPretrainingCriterion excludes the positions labelled
\* -100 from the masked-LM loss without error; NeZhaForPretraining excludes the
\* positions labelled -1, and a call with a label of -100 either raises or
\* counts that position in the loss.
C20_SentinelPerModel ==
    /\ CritExcludesSentinel
    /\ (pre # Idle /\ pre.pc # "call" /\ pre.masked_lm_labels # None) =>
            /\ (\A k \in PrePositions : pre_labels[k] # -100) =>
                    /\ pre.pc = "returned"
                    /\ pre.error = "none"
                    /\ pre.masked_lm_loss.num =
                            PreWeightOf({k \in PrePositions : pre_labels[k] # -1})
                    /\ pre.masked_lm_loss.den =
                            Cardinality({k \in PrePositions : pre_labels[k] # -1})
            /\ (\E k \in PrePositions : pre_labels[k] = -100) =>
                    \/ pre.pc = "raised"
                    \/ /\ pre.error = "undefined loss value"
                       /\ pre.masked_lm_loss.num =
                            PreWeightOf({k \in PrePositions : pre_labels[k] # -1})

\* NeZha: labels (-1, 1, 0, -1) give the loss of positions 1 and 2
C20_Witness ==
    /\ pre # Idle
    /\ pre.pc = "returned"
    /\ pre.batch = 2
    /\ pre.seq_length = 2
    /\ pre.masked_lm_labels # None
    /\ pre_labels = [k \in 0..3 |-> IF k = 1 THEN 1 ELSE IF k = 2 THEN 0 ELSE -1]
    /\ pre.masked_lm_loss = [num |-> 6, den |-> 2, divided |-> TRUE]

\* NeZha: a label of -100 at position 0 is counted in the returned loss
C20_WitnessSentinel ==
    /\ pre # Idle
    /\ pre.pc = "returned"
    /\ pre.batch = 1
    /\ pre.seq_length = 2
    /\ pre.masked_lm_labels # None
    /\ pre_labels = [k \in 0..1 |-> IF k = 0 THEN -100 ELSE 1]
    /\ pre.masked_lm_loss = [num |-> 3, den |-> 2, divided |-> TRUE]

\* Electra: labels (-100, 1, 0, -100) give the loss of positions 1 and 2
C20_WitnessCriterion ==
    /\ crit.pc = "returned"
    /\ crit.batch = 2
    /\ crit.seq_length = 2
    /\ CritMasked = {<<0, 1>>, <<1, 0>>}
    /\ crit.gen_loss.num = 6

\* ---------------------------------------------------------------------------
\* NeZhaAttention.forward on the values of its tensors
\* An element of the query, key and value projections is an atom named by its
\* place; a sum of products of two elements is the set of its products; a
\* product with the exact zero drops out of the sum.
\* ---------------------------------------------------------------------------

\* largest attention_head_size of the value model
MaxHeadSize == 2

\* largest num_attention_heads of the value model
MaxValueHeads == 2

\* the attention masks that hide at most one position
OneHiddenMasks(sh) ==
    {[k \in 0..(sh[1] * sh[2] - 1) |-> IF k = p THEN 0 ELSE 1] :
        p \in (-1)..(sh[1] * sh[2] - 1)}

\* self.query / self.key / self.value applied to hidden_states: element
\* (b, s, c) of the projection called name
projection(name, batch, seq, all_head_size) ==
    Tensor(<<batch, seq, all_head_size>>,
           [e \in 0..(batch * seq * all_head_size - 1) |->
                <<name, e \div (seq * all_head_size), (e \div all_head_size) % seq,
                  e % all_head_size>>])

\* x.reshape(x.shape[:-1] + [heads, head_size]).transpose((0, 2, 1, 3))
transpose_for_scores_values(x, heads, head_size) ==
    paddle_transpose(
        Tensor_reshape(x, SubSeq(x.shape, 1, Len(x.shape) - 1) \o <<heads, head_size>>),
        <<0, 2, 1, 3>>)

\* the table of __init__ as a tensor of shape (length, length, depth)
relative_positions_tensor(length, depth, max_relative_position) ==
    LET table == generate_relative_positions_embeddings(length, depth, max_relative_position)
    IN Tensor(<<length, length, depth>>,
              [e \in 0..(length * length * depth - 1) |->
                    table[e \div (length * depth)][(e \div depth) % length][e % depth]])

\* a table of the same shape set to zeros
zeros_table(length, depth) ==
    Tensor(<<length, length, depth>>, [e \in 0..(length * length * depth - 1) |-> Zero])

\* table[:n, :n, :]
slice_values(table, n) ==
    LET shape == slice_shape(table.shape, n)
    IN Tensor(shape, [e \in 0..(Numel(shape) - 1) |->
                        table.data[Ravel(Unravel(e, shape), table.shape)]])

\* the product of two elements as a sum of at most one product
product(a, b) == IF a = Zero \/ b = Zero THEN {} ELSE {<<a, b>>}

\* paddle.matmul of two tensors with the same leading dimensions: element
\* (..., i, j) is the sum over c of x[..., i, c] * y[..., c, j]
matmul_values(x, y) ==
    LET nx == Len(x.shape)
        ny == Len(y.shape)
        shape == matmul_shape(x.shape, y.shape)
    IN IF IsFault(shape) \/ SubSeq(x.shape, 1, nx - 2) # SubSeq(y.shape, 1, ny - 2)
       THEN FaultTensor
       ELSE Tensor(shape,
                [e \in 0..(Numel(shape) - 1) |->
                    LET idx == Unravel(e, shape)
                        lead == SubSeq(idx, 1, nx - 2)
                    IN UNION {product(x.data[Ravel(lead \o <<idx[nx - 1], c>>, x.shape)],
                                      y.data[Ravel(lead \o <<c, idx[nx]>>, y.shape)]) :
                                c \in 0..(x.shape[nx] - 1)}])

\* x + y for two sums of the same shape
add_values(x, y) ==
    IF IsFault(x.shape) \/ x.shape # y.shape THEN FaultTensor
    ELSE Tensor(x.shape, [e \in DOMAIN x.data |-> x.data[e] \cup y.data[e]])

\* a score: (terms + inner) / sqrt(div) + outer, not divided when div is 0
Score(terms, inner, div, outer) ==
    [terms |-> terms, inner |-> inner, div |-> div, outer |-> outer]

\* x / math.sqrt(head_size) for a tensor of scores
divide_by_sqrt(x, head_size) ==
    Tensor(x.shape, [e \in DOMAIN x.data |-> [x.data[e] EXCEPT !.div = head_size]])

\* x + attention_mask, the mask of shape (batch, 1, 1, seq) broadcast over
\* heads and query positions
add_mask(x, attention_mask) ==
    LET m == broadcast_to(attention_mask, x.shape)
    IN Tensor(x.shape,
              [e \in DOMAIN x.data |->
                    IF x.data[e].div = 0
                    THEN [x.data[e] EXCEPT !.inner = @ + m.data[e]]
                    ELSE [x.data[e] EXCEPT !.outer = @ + m.data[e]]])

mask_then_scale(x, head_size, attention_mask) ==
    divide_by_sqrt(add_mask(x, attention_mask), head_size)

\* lines 165-166: the scaling, then the mask
scale_then_mask(x, head_size, attention_mask) ==
    add_mask(divide_by_sqrt(x, head_size), attention_mask)

\* nn.Softmax(axis=-1): element (b, h, i, j) is the weight of key j in the
\* softmax of the row (b, h, i) of its input
softmax_values(x) ==
    Tensor(x.shape, [e \in DOMAIN x.data |-> <<"p">> \o Unravel(e, x.shape)])

position_terms_kept(table) == relative_positions_tensor(table.shape[1], table.shape[3], 1)

\* the table forward reads: self.relative_positions_embeddings
position_table(table) == table

\* lines 134-146: the three projections, split into heads, and the content
\* logits
content_scores(self, batch, seq) ==
    LET heads == self.num_attention_heads
        head_size == self.attention_head_size
        query_layer == transpose_for_scores_values(
                            projection("q", batch, seq, heads * head_size), heads, head_size)
        key_layer == transpose_for_scores_values(
                            projection("k", batch, seq, heads * head_size), heads, head_size)
        value_layer == transpose_for_scores_values(
                            projection("v", batch, seq, heads * head_size), heads, head_size)
    IN [query_layer |-> query_layer,
        value_layer |-> value_layer,
        attention_scores |->
            matmul_values(query_layer, paddle_transpose(key_layer, <<0, 1, 3, 2>>))]

key_position_scores_mixed(self, query_layer, scores) ==
    LET table == self.relative_positions_embeddings
    IN IF scores.shape[4] > table.shape[1] THEN FaultTensor
       ELSE Tensor(scores.shape,
                [e \in 0..(Numel(scores.shape) - 1) |->
                    LET x == Unravel(e, scores.shape)
                    IN UNION {product(
                                query_layer.data[Ravel(<<x[1], x[2], x[4], d>>,
                                                       query_layer.shape)],
                                table.data[Ravel(<<x[3], x[4], d>>, table.shape)]) :
                              d \in 0..(self.attention_head_size - 1)}])

\* lines 147-163: the position logits of the queries against relations_keys
key_position_scores_r_t(self, query_layer, scores) ==
    LET batch_size == scores.shape[1]
        num_attention_heads == scores.shape[2]
        from_seq_length == scores.shape[3]
        to_seq_length == scores.shape[4]
        relations_keys == slice_values(position_table(self.relative_positions_embeddings),
                                       to_seq_length)
        query_layer_r ==
            Tensor_reshape(paddle_transpose(query_layer, <<2, 0, 1, 3>>),
                           <<from_seq_length, batch_size * num_attention_heads,
                             self.attention_head_size>>)
        key_position_scores ==
            matmul_values(query_layer_r, paddle_transpose(relations_keys, <<0, 2, 1>>))
    IN paddle_transpose(
            Tensor_reshape(key_position_scores,
                           <<from_seq_length, batch_size, num_attention_heads,
                             from_seq_length>>),
            <<1, 2, 0, 3>>)

\* lines 164-166: the sum of the two logits, scaled and masked
masked_scores(self, scores, position_scores, attention_mask) ==
    LET sum == add_values(scores, position_scores)
    IN IF IsFault(sum.shape) THEN FaultTensor
       ELSE scale_then_mask(
                Tensor(sum.shape, [e \in DOMAIN sum.data |-> Score(sum.data[e], 0, 0, 0)]),
                self.attention_head_size, attention_mask)

\* lines 175-188: the context of the values plus the position term of
\* relations_values
context_with_positions(self, attention_probs, value_layer) ==
    LET batch_size == attention_probs.shape[1]
        num_attention_heads == attention_probs.shape[2]
        from_seq_length == attention_probs.shape[3]
        to_seq_length == attention_probs.shape[4]
        relations_values == slice_values(position_table(self.relative_positions_embeddings),
                                         to_seq_length)
        attentions_probs_r ==
            Tensor_reshape(paddle_transpose(attention_probs, <<2, 0, 1, 3>>),
                           <<from_seq_length, batch_size * num_attention_heads,
                             to_seq_length>>)
        value_position_scores == matmul_values(attentions_probs_r, relations_values)
        value_position_scores_r_t ==
            paddle_transpose(
                Tensor_reshape(value_position_scores,
                               <<from_seq_length, batch_size, num_attention_heads,
                                 self.attention_head_size>>),
                <<1, 2, 0, 3>>)
    IN [value_position_scores |-> value_position_scores_r_t,
        context_layer |->
            add_values(matmul_values(attention_probs, value_layer),
                       value_position_scores_r_t)]

merge_heads_unpermuted(self, context_layer) ==
    Tensor_reshape(context_layer,
                   <<context_layer.shape[1], context_layer.shape[3], self.all_head_size>>)

\* lines 190-192: the heads are merged again
merge_heads(self, context_layer) ==
    LET x == paddle_transpose(context_layer, <<0, 2, 1, 3>>)
    IN Tensor_reshape(x, SubSeq(x.shape, 1, 2) \o <<self.all_head_size>>)

dropout_training(x, generator_state) ==
    [out |-> Tensor(x.shape, [e \in DOMAIN x.data |->
                IF (e + generator_state) % 2 = 0 THEN Zero ELSE x.data[e]]),
     generator_state |-> generator_state + 1]

\* self.attention_dropout and self.output_dropout with dropout disabled
\* (evaluation mode, or a probability of 0): the input comes back as it is and
\* the state of the random generator is not advanced
dropout(x, generator_state) ==
    [out |-> x, generator_state |-> generator_state]

NoValues ==
    [query_layer |-> FaultTensor, value_layer |-> FaultTensor,
     attention_scores |-> FaultTensor, softmax_input |-> FaultTensor,
     attention_probs |-> FaultTensor,
     key_position_scores |-> FaultTensor, value_position_scores |-> FaultTensor,
     context_layer |-> FaultTensor]

\* a call of forward on a layer whose table is the one of __init__ or has been
\* set to zeros; the additive mask is the one NeZhaModel.forward builds
ValueInputs ==
    UNION {
        {[pc |-> "call", batch |-> sh[1], seq |-> sh[2],
          num_attention_heads |-> heads, attention_head_size |-> head_size,
          max_relative_position |-> mrp,
          relative_positions_embeddings |->
                IF zeroed THEN zeros_table(TableLength, head_size)
                ELSE relative_positions_tensor(TableLength, head_size, mrp),
          all_head_size |-> heads * head_size,
          zeroed |-> zeroed,
          generator_state |-> 0,
          first |-> None,
          attention_mask |-> extend_attention_mask(Tensor(sh, am)),
          fwd |-> NoValues] :
            heads \in 1..MaxValueHeads, head_size \in 1..MaxHeadSize,
            mrp \in {1, MaxRelPos}, zeroed \in BOOLEAN,
            am \in OneHiddenMasks(sh)}
        : sh \in NeZhaShapes}

InitValues ==
    /\ av \in ValueInputs
    /\ relpos = Idle /\ attn = Idle /\ electra = Idle /\ crit = Idle
    /\ enc = Idle /\ nezha = Idle /\ mc = Idle /\ qa = Idle /\ pre = Idle /\ emask = Idle
    /\ tie = Idle /\ sampler = Idle

\* forward, lines 134-146
NeZhaAttention_forward_content ==
    /\ av # Idle
    /\ av.pc = "call"
    /\ LET r == content_scores(av, av.batch, av.seq)
       IN av' = [av EXCEPT !.pc = "content",
                           !.fwd.query_layer = r.query_layer,
                           !.fwd.value_layer = r.value_layer,
                           !.fwd.attention_scores = r.attention_scores]
    /\ UNCHANGED <<relpos, attn, electra, crit, enc, nezha, mc, qa, pre, emask, tie, sampler>>

\* forward, lines 147-163; the matmul raises for a sequence longer than the table
NeZhaAttention_forward_position ==
    /\ av # Idle
    /\ av.pc = "content"
    /\ LET r == key_position_scores_r_t(av, av.fwd.query_layer, av.fwd.attention_scores)
       IN av' = [av EXCEPT !.pc = IF IsFault(r.shape) THEN "raised" ELSE "position",
                           !.fwd.key_position_scores = r]
    /\ UNCHANGED <<relpos, attn, electra, crit, enc, nezha, mc, qa, pre, emask, tie, sampler>>

\* forward, lines 164-173: the scores given to the softmax; dropout is the
\* identity of evaluation mode
NeZhaAttention_forward_softmax ==
    /\ av # Idle
    /\ av.pc = "position"
    /\ LET attention_scores == masked_scores(av, av.fwd.attention_scores,
                                             av.fwd.key_position_scores, av.attention_mask)
           attention_probs == dropout(softmax_values(attention_scores), av.generator_state)
       IN av' = [av EXCEPT !.pc = "probs",
                           !.generator_state = attention_probs.generator_state,
                           !.fwd.attention_scores = attention_scores,
                           !.fwd.softmax_input = attention_scores,
                           !.fwd.attention_probs = attention_probs.out]
    /\ UNCHANGED <<relpos, attn, electra, crit, enc, nezha, mc, qa, pre, emask, tie, sampler>>

\* forward, lines 175-188
NeZhaAttention_forward_context ==
    /\ av # Idle
    /\ av.pc = "probs"
    /\ LET r == context_with_positions(av, av.fwd.attention_probs, av.fwd.value_layer)
       IN av' = [av EXCEPT !.pc = "context",
                           !.fwd.value_position_scores = r.value_position_scores,
                           !.fwd.context_layer = r.context_layer]
    /\ UNCHANGED <<relpos, attn, electra, crit, enc, nezha, mc, qa, pre, emask, tie, sampler>>

\* forward, lines 190-200: the merged context goes through dense, dropout and
\* layer_norm, and is returned with attention_scores
NeZhaAttention_forward_return ==
    /\ av # Idle
    /\ av.pc = "context"
    /\ LET projected_context_layer_dropout ==
                dropout(merge_heads(av, av.fwd.context_layer), av.generator_state)
       IN av' = [av EXCEPT !.pc = "returned",
                           !.generator_state = projected_context_layer_dropout.generator_state,
                           !.fwd.context_layer = projected_context_layer_dropout.out]
    /\ UNCHANGED <<relpos, attn, electra, crit, enc, nezha, mc, qa, pre, emask, tie, sampler>>

\* a second call of forward on the same layer with the same hidden_states and
\* attention_mask; what the first call returned is kept for comparison
NeZhaAttention_forward_again ==
    /\ av # Idle
    /\ av.pc = "returned"
    /\ av.first = None
    /\ av' = [av EXCEPT !.pc = "call",
                        !.first = Some([context_layer |-> av.fwd.context_layer,
                                        attention_scores |-> av.fwd.attention_scores]),
                        !.fwd = NoValues]
    /\ UNCHANGED <<relpos, attn, electra, crit, enc, nezha, mc, qa, pre, emask, tie, sampler>>

NextValues ==
    \/ NeZhaAttention_forward_content
    \/ NeZhaAttention_forward_position
    \/ NeZhaAttention_forward_softmax
    \/ NeZhaAttention_forward_context
    \/ NeZhaAttention_forward_return
    \/ NeZhaAttention_forward_again

SpecValues == InitValues /\ [][NextValues]_vars

\* ---------------------------------------------------------------------------
\* Claims about the values of NeZhaAttention.forward
\* ---------------------------------------------------------------------------

\* the elements (b, h, i, d) of the query, key and value layers
Q(b, h, i, d) == <<"q", b, i, h * av.attention_head_size + d>>

K(b, h, j, d) == <<"k", b, j, h * av.attention_head_size + d>>

V(b, h, j, d) == <<"v", b, j, h * av.attention_head_size + d>>

\* element (i, j, d) of the layer's table
TableAt(i, j, d) ==
    av.relative_positions_embeddings.data[
        (i * TableLength + j) * av.attention_head_size + d]

HeadDims == 0..(av.attention_head_size - 1)

\* the content logit of query i and key j: the sum over d of q * k
ContentTerms(b, h, i, j) == {<<Q(b, h, i, d), K(b, h, j, d)>> : d \in HeadDims}

\* the position logit of query i and key j: the sum over d of q * table[i, j]
PositionTerms(b, h, i, j) ==
    {<<Q(b, h, i, d), TableAt(i, j, d)>> : d \in {x \in HeadDims : TableAt(i, j, x) # Zero}}

\* the indices (b, h, i, j) of the attention scores
ScoreIndices ==
    (0..(av.batch - 1)) \X (0..(av.num_attention_heads - 1))
        \X (0..(av.seq - 1)) \X (0..(av.seq - 1))

\* the offset of (b, h, i, j) in a tensor of shape (batch, heads, seq, last)
Offset4(x, last) ==
    ((x[1] * av.num_attention_heads + x[2]) * av.seq + x[3]) * last + x[4]

\* C15: the attention scores NeZhaAttention.forward returns are the pre-softmax,
\* post-mask scores: (content logits + position logits) divided by
\* sqrt(head_dim), with the additive mask added after the division and not
\* divided itself; they are the values given to the softmax.
C15_ReturnedScores ==
    (av # Idle /\ av.pc = "returned") =>
        /\ av.fwd.attention_scores.shape =
                <<av.batch, av.num_attention_heads, av.seq, av.seq>>
        /\ av.fwd.attention_scores = av.fwd.softmax_input
        /\ \A x \in ScoreIndices :
                av.fwd.attention_scores.data[Offset4(x, av.seq)] =
                    [terms |-> ContentTerms(x[1], x[2], x[3], x[4])
                                \cup PositionTerms(x[1], x[2], x[3], x[4]),
                     inner |-> 0,
                     div |-> av.attention_head_size,
                     outer |-> av.attention_mask.data[x[1] * av.seq + x[4]]]

\* a generated table, head size 2, and the second of two keys hidden: the score
\* of that key has content and position terms and the mask outside the division
C15_Witness ==
    /\ av # Idle
    /\ av.pc = "returned"
    /\ ~av.zeroed
    /\ av.batch = 1
    /\ av.seq = 2
    /\ av.num_attention_heads = 2
    /\ av.attention_head_size = 2
    /\ av.fwd.attention_scores.data[5].outer = -10000
    /\ av.fwd.attention_scores.data[5].div = 2
    /\ <<<<"q", 0, 0, 2>>, <<"k", 0, 1, 2>>>> \in av.fwd.attention_scores.data[5].terms
    /\ <<<<"q", 0, 0, 2>>, <<"sin", 2, 0>>>> \in av.fwd.attention_scores.data[5].terms

\* C16: with the relative-position table set to zeros, NeZhaAttention.forward
\* computes the logits and the context of standard scaled dot-product attention
\* on the same query, key, value and mask: both position terms are zero for
\* every (batch, head, from, to).
C16_ZeroTableIsStandardAttention ==
    (av # Idle /\ av.pc = "returned" /\ av.zeroed) =>
        /\ \A e \in DOMAIN av.fwd.key_position_scores.data :
                av.fwd.key_position_scores.data[e] = {}
        /\ \A e \in DOMAIN av.fwd.value_position_scores.data :
                av.fwd.value_position_scores.data[e] = {}
        /\ \A x \in ScoreIndices :
                av.fwd.attention_scores.data[Offset4(x, av.seq)] =
                    [terms |-> ContentTerms(x[1], x[2], x[3], x[4]),
                     inner |-> 0,
                     div |-> av.attention_head_size,
                     outer |-> av.attention_mask.data[x[1] * av.seq + x[4]]]
        /\ av.fwd.context_layer.shape =
                <<av.batch, av.seq, av.num_attention_heads * av.attention_head_size>>
        /\ \A b \in 0..(av.batch - 1) : \A h \in 0..(av.num_attention_heads - 1) :
           \A i \in 0..(av.seq - 1) : \A d \in HeadDims :
                av.fwd.context_layer.data[
                    (b * av.seq + i) * av.num_attention_heads * av.attention_head_size
                        + h * av.attention_head_size + d] =
                    {<<<<"p", b, h, i, j>>, V(b, h, j, d)>> : j \in 0..(av.seq - 1)}

\* a zeroed table of head size 2 on two sequences of two tokens and two heads
C16_Witness ==
    /\ av # Idle
    /\ av.pc = "returned"
    /\ av.zeroed
    /\ av.batch = 2
    /\ av.seq = 2
    /\ av.num_attention_heads = 2
    /\ av.attention_head_size = 2
    /\ av.fwd.context_layer.data[15] =
            {<<<<"p", 1, 1, 1, 0>>, <<"v", 1, 0, 3>>>>, <<<<"p", 1, 1, 1, 1>>, <<"v", 1, 1, 3>>>>}

\* C25: the position term added to the logit at (batch b, head h, from i, to j)
\* is the dot product of query[b, h, i, :] with table[i, j, :], for every
\* b, h, i, j: the transpose and reshape to (seq_from, batch * heads, head_dim)
\* and back mix no batch, head or position indices.
C25_KeyPositionTerm ==
    (av # Idle /\ av.pc \in {"position", "probs", "context", "returned"}) =>
        /\ av.fwd.key_position_scores.shape =
                <<av.batch, av.num_attention_heads, av.seq, av.seq>>
        /\ \A x \in ScoreIndices :
                av.fwd.key_position_scores.data[Offset4(x, av.seq)] =
                    PositionTerms(x[1], x[2], x[3], x[4])

\* two sequences, two heads and two positions with a generated table: the term
\* of sequence 1, head 1, query 0 and key 1 holds the query's own elements
C25_Witness ==
    /\ av # Idle
    /\ av.pc = "position"
    /\ ~av.zeroed
    /\ av.batch = 2
    /\ av.seq = 2
    /\ av.num_attention_heads = 2
    /\ av.attention_head_size = 2
    /\ av.max_relative_position = 1
    /\ av.fwd.key_position_scores.data[13] =
            {<<<<"q", 1, 0, 2>>, <<"sin", 2, 0>>>>, <<<<"q", 1, 0, 3>>, <<"cos", 2, 0>>>>}

\* the position-value term at (b, h, i, d): the sum over j of
\* attention_probs[b, h, i, j] * table[i, j, d]
ValuePositionTerms(b, h, i, d) ==
    {<<<<"p", b, h, i, j>>, TableAt(i, j, d)>> :
        j \in {x \in 0..(av.seq - 1) : TableAt(i, x, d) # Zero}}

\* C26: the position-value term added to the context at (batch b, head h,
\* from i, dim d) is the sum over j of attention_probs[b, h, i, j] *
\* table[i, j, d], and the merged context has shape (batch, seq, hidden_size)
\* with head h in columns h * head_dim .. (h + 1) * head_dim - 1.
C26_ValuePositionTerm ==
    /\ (av # Idle /\ av.pc \in {"context", "returned"}) =>
        /\ av.fwd.value_position_scores.shape =
                <<av.batch, av.num_attention_heads, av.seq, av.attention_head_size>>
        /\ \A b \in 0..(av.batch - 1) : \A h \in 0..(av.num_attention_heads - 1) :
           \A i \in 0..(av.seq - 1) : \A d \in HeadDims :
                av.fwd.value_position_scores.data[
                    Offset4(<<b, h, i, d>>, av.attention_head_size)] =
                        ValuePositionTerms(b, h, i, d)
    /\ (av # Idle /\ av.pc = "returned") =>
        /\ av.fwd.context_layer.shape =
                <<av.batch, av.seq, av.num_attention_heads * av.attention_head_size>>
        /\ \A b \in 0..(av.batch - 1) : \A h \in 0..(av.num_attention_heads - 1) :
           \A i \in 0..(av.seq - 1) : \A d \in HeadDims :
                av.fwd.context_layer.data[
                    (b * av.seq + i) * av.num_attention_heads * av.attention_head_size
                        + h * av.attention_head_size + d] =
                    {<<<<"p", b, h, i, j>>, V(b, h, j, d)>> : j \in 0..(av.seq - 1)}
                        \cup ValuePositionTerms(b, h, i, d)

\* a generated table, two heads of size 2 and two positions: column 3 of the
\* merged context of token 0 is dimension 1 of head 1
C26_Witness ==
    /\ av # Idle
    /\ av.pc = "returned"
    /\ ~av.zeroed
    /\ av.batch = 1
    /\ av.seq = 2
    /\ av.num_attention_heads = 2
    /\ av.attention_head_size = 2
    /\ av.max_relative_position = 1
    /\ av.fwd.context_layer.data[3] =
            {<<<<"p", 0, 1, 0, 0>>, <<"v", 0, 0, 3>>>>,
             <<<<"p", 0, 1, 0, 1>>, <<"v", 0, 1, 3>>>>,
             <<<<"p", 0, 1, 0, 0>>, <<"cos", 1, 0>>>>,
             <<<<"p", 0, 1, 0, 1>>, <<"cos", 2, 0>>>>}

C27_WitnessBoth ==
    /\ pre # Idle
    /\ pre.pc = "returned"
    /\ pre.error = "none"
    /\ pre.masked_lm_labels # None
    /\ pre.next_sentence_label # None
    /\ pre.batch = 2
    /\ pre.seq_length = 2
    /\ pre.returns = "masked_lm_loss + next_sentence_loss"
    /\ pre.masked_lm_loss = [num |-> 15, den |-> 4, divided |-> TRUE]
    /\ pre.next_sentence_loss = [num |-> 3, den |-> 2, divided |-> TRUE]

\* C28: NeZhaForMultipleChoice.forward called with token_type_ids and
\* attention_mask of shape (batch, num_choices, seq) flattens both to
\* (batch * num_choices, seq), row-aligned with the flattened input_ids, and
\* completes without error; called with them as None it passes None to the
\* base model.
C28_OptionalArgumentsFlattened ==
    (mc # Idle /\ mc.pc # "call" /\ mc.input_ids.shape[2] = mc.num_choices) =>
        LET flat == <<mc.input_ids.shape[1] * mc.input_ids.shape[2], mc.input_ids.shape[3]>>
        IN /\ mc.pc = "returned"
           /\ mc.passed[1] = IF mc.token_type_ids = "None" THEN None ELSE Some(flat)
           /\ mc.passed[2] = IF mc.attention_mask = "None" THEN None ELSE Some(flat)

\* token_type_ids and attention_mask of shape (2, 3, 2): the call raises at
\* "if token_type_ids:"
C28_RaisedOnTensors ==
    /\ mc # Idle
    /\ mc.pc = "raised"
    /\ mc.error = "ambiguous truth value"
    /\ mc.num_choices = 3
    /\ mc.input_ids.shape = <<2, 3, 2>>
    /\ mc.token_type_ids = "zeros"
    /\ mc.attention_mask = "ones"

\* both arguments None: None reaches the base model
C28_NonePassed ==
    /\ mc # Idle
    /\ mc.pc = "returned"
    /\ mc.token_type_ids = "None"
    /\ mc.attention_mask = "None"
    /\ mc.input_ids.shape = <<2, 3, 2>>
    /\ mc.passed = <<None, None>>

(***************************************************************************)
(* ElectraPretrainingCriterion: the denominators of the two divisions      *)
(***************************************************************************)
\* C29: ElectraPretrainingCriterion.forward never divides by zero: for every
\* generator label tensor and every boolean attention mask, a mask that is
\* false at every position included, each division it performs has a
\* denominator other than zero.
C29_NoZeroDenominator ==
    crit.pc = "returned" =>
        /\ crit.gen_loss.divided => crit.gen_loss.den # 0
        /\ crit.disc_loss.divided => crit.disc_loss.den # 0

\* the generator's division is guarded: with no labelled position nothing is
\* divided, and every generator division has a positive denominator
C29_GeneratorGuarded ==
    crit.pc = "returned" => (crit.gen_loss.divided => crit.gen_loss.den > 0)

\* a mask that is false at every position: the discriminator loss is 0 / 0
C29_AllFalseMask ==
    /\ crit.pc = "returned"
    /\ crit.batch = 2
    /\ crit.seq_length = 2
    /\ crit.attention_mask # None
    /\ CritAttended = {}
    /\ crit.disc_loss = [num |-> 0, den |-> 0, divided |-> TRUE]

(***************************************************************************)
(* ElectraForTotalPretraining: the returned mask and the discriminator's   *)
(***************************************************************************)
\* C30: in ElectraForTotalPretraining.forward with attention_mask None, for
\* every choice of sampled tokens the positions the discriminator masks out as
\* padding (substituted token = pad_token_id) are exactly the positions where
\* the returned attention_mask (input_ids # pad_token_id) is false.
C30_MaskMatchesDiscriminator ==
    (electra.pc = "returned" /\ electra.attention_mask = None) =>
        \A p \in Pos : electra.disc_padding[1][p] <=> ~electra.out_attention_mask[p]

\* the two agree at every position whose generator label is -100, where the
\* discriminator reads the token of input_ids
C30_UnmaskedPositionsAgree ==
    (electra.pc = "returned" /\ electra.attention_mask = None) =>
        \A p \in Pos :
            electra.gen_labels[1][p] = -100 =>
                (electra.disc_padding[1][p] <=> ~electra.out_attention_mask[p])

\* a masked position of a real token receives the pad token: the discriminator
\* masks it out and the returned mask keeps it
C30_SampledPad ==
    /\ electra.pc = "returned"
    /\ electra.attention_mask = None
    /\ electra.gen_labels[1][0] # -100
    /\ electra.input_ids[0] # pad_token_id
    /\ electra.sampled_tokids[0] = pad_token_id
    /\ electra.disc_padding[1][0]
    /\ electra.out_attention_mask[0]

(***************************************************************************)
(* ElectraForTotalPretraining.sample_from_softmax                          *)
(* Logits and noise are small integers; only their order matters to the    *)
(* argmax.  A tensor of shape [positions, vocab] is a function             *)
(* position -> token -> value.                                             *)
(***************************************************************************)
\* largest vocabulary of the sampling model
MaxVocab == 2

\* largest generator logit
MaxLogit == 1

\* the values of the Gumbel noise -log(-log(u)): it is unbounded above, so a
\* token that draws the large value wins whatever its logit
NoiseValues == {0, MaxLogit + 1}

\* the positions of the sampled sequence
SamplePos == {0, 1}

\* F.softmax over the last axis, in exact arithmetic: strictly increasing in
\* its input, so each value is given by its rank in the row
softmax(x) ==
    [p \in DOMAIN x |-> [k \in DOMAIN x[p] |->
        Cardinality({q \in DOMAIN x[p] : x[p][q] < x[p][k]})]]

gumbel_noise_always(logits, use_softmax_sample) ==
    [DOMAIN logits -> [DOMAIN logits[0] -> NoiseValues]]

\* lines 942-948: the noise tensors the call may draw; zeros_like(logits) when
\* sampling is disabled
gumbel_noise(logits, use_softmax_sample) ==
    IF use_softmax_sample
    THEN [DOMAIN logits -> [DOMAIN logits[0] -> NoiseValues]]
    ELSE {[p \in DOMAIN logits |-> [k \in DOMAIN logits[0] |-> 0]]}

\* logits + gumbel_noise
add_noise(logits, noise) ==
    [p \in DOMAIN logits |-> [k \in DOMAIN logits[p] |-> logits[p][k] + noise[p][k]]]

\* lines 924-926 for one drawn noise tensor: the one-hot sample and the token
\* ids recovered from it
sampled(logits, noise) ==
    LET sampled_tokens == sample_from_softmax(softmax(add_noise(logits, noise)))
    IN [sampled_tokens |-> sampled_tokens,
        sampled_tokids |-> [p \in DOMAIN sampled_tokens |-> argmax(sampled_tokens[p])]]

SamplerInputs ==
    UNION {
        [pc : {"ready"}, vocab_size : {v},
         logits : [SamplePos -> [0..(v - 1) -> 0..MaxLogit]],
         use_softmax_sample : BOOLEAN,
         samples : {<<>>}]
        : v \in 1..MaxVocab}

InitSampler ==
    /\ sampler \in SamplerInputs
    /\ relpos = Idle /\ attn = Idle /\ electra = Idle /\ crit = Idle
    /\ enc = Idle /\ nezha = Idle /\ mc = Idle /\ qa = Idle /\ pre = Idle
    /\ emask = Idle /\ av = Idle /\ tie = Idle

\* a call of sample_from_softmax on the same logits, and the argmax of line
\* 926; at most two calls are kept
ElectraForTotalPretraining_sample_from_softmax ==
    /\ sampler # Idle
    /\ Len(sampler.samples) < 2
    /\ \E noise \in gumbel_noise(sampler.logits, sampler.use_softmax_sample) :
        sampler' = [sampler EXCEPT
            !.samples = Append(@, sampled(sampler.logits, noise))]
    /\ UNCHANGED <<relpos, attn, electra, crit, enc, nezha, mc, qa, pre, emask, av, tie>>

NextSampler == ElectraForTotalPretraining_sample_from_softmax

SpecSampler == InitSampler /\ [][NextSampler]_vars

\* C22: with use_softmax_sample false the token of every position is the
\* argmax of the generator logits at that position, and two calls on the same
\* logits give the same tokens; in both modes the sample of every position is
\* one-hot over the vocabulary and the token id recovered from it lies in
\* [0, vocab_size).
C22_ArgmaxWithoutSampling ==
    sampler # Idle =>
        /\ \A c \in DOMAIN sampler.samples : \A p \in SamplePos :
            LET tok == sampler.samples[c].sampled_tokids[p]
                hot == sampler.samples[c].sampled_tokens[p]
            IN /\ tok \in 0..(sampler.vocab_size - 1)
               /\ DOMAIN hot = 0..(sampler.vocab_size - 1)
               /\ \A k \in DOMAIN hot : hot[k] = IF k = tok THEN 1 ELSE 0
               /\ ~sampler.use_softmax_sample =>
                    /\ \A k \in DOMAIN hot : sampler.logits[p][k] <= sampler.logits[p][tok]
                    /\ \A k \in DOMAIN hot :
                            sampler.logits[p][k] = sampler.logits[p][tok] => tok <= k
        /\ (~sampler.use_softmax_sample /\ Len(sampler.samples) = 2) =>
                sampler.samples[1] = sampler.samples[2]

\* two calls without sampling: token 1 at position 0 and token 0 at position 1
C22_Witness ==
    /\ sampler # Idle
    /\ ~sampler.use_softmax_sample
    /\ Len(sampler.samples) = 2
    /\ sampler.vocab_size = 2
    /\ sampler.logits[0][1] > sampler.logits[0][0]
    /\ sampler.logits[1][0] > sampler.logits[1][1]
    /\ sampler.samples[2].sampled_tokids = [p \in SamplePos |-> 1 - p]

\* with sampling, two calls on the same logits give different tokens, and one
\* of them is not the argmax of the logits
C22_WitnessSampling ==
    /\ sampler # Idle
    /\ sampler.use_softmax_sample
    /\ Len(sampler.samples) = 2
    /\ sampler.vocab_size = 2
    /\ sampler.logits[0][1] > sampler.logits[0][0]
    /\ sampler.samples[1].sampled_tokids[0] = 0
    /\ sampler.samples[2].sampled_tokids[0] = 1

(***************************************************************************)
(* NeZhaAttention across forward calls                                     *)
(***************************************************************************)
\* C23: the relative-position table of a NeZhaAttention layer is the one built
\* at construction after any number of forward calls with any sequence
\* lengths; no table exists before construction has built it.
C23_TableReadOnly ==
    /\ attn.pc = "ready" =>
            attn.relative_positions_embeddings =
                generate_relative_positions_embeddings(
                    TableLength, attn.attention_head_size, attn.max_relative_position)
    /\ attn.pc \in {"new", "checked", "raised"} =>
            attn.relative_positions_embeddings = <<>>

\* a forward call on a sequence shorter than the table has returned, and the
\* layer still holds the whole table
C23_Witness ==
    /\ attn.pc = "ready"
    /\ attn.fwd.status = "returned"
    /\ attn.fwd.seq = 1
    /\ attn.fwd.seq < TableLength
    /\ attn.fwd.relations_keys = <<1, 1, attn.attention_head_size>>
    /\ attn.max_relative_position = 1
    /\ table_shape(attn.relative_positions_embeddings)
            = <<TableLength, TableLength, attn.attention_head_size>>

\* the same after a call that ended in a fault
C23_WitnessFault ==
    /\ attn.pc = "ready"
    /\ attn.fwd.status = "fault"
    /\ table_shape(attn.relative_positions_embeddings)
            = <<TableLength, TableLength, attn.attention_head_size>>

MaxEmbedding == 3

\* the weight of an nn.Embedding(num_embeddings, embedding_dim) after
\* _init_weights has set its values: element (i, j) is named by its cell
embedding_weight(cell, num_embeddings, embedding_dim) ==
    Tensor(<<num_embeddings, embedding_dim>>,
           [e \in 0..(num_embeddings * embedding_dim - 1) |->
                <<cell, e \div embedding_dim, e % embedding_dim>>])

\* Tensor.t() of a 2-D tensor
Tensor_t(x) == paddle_transpose(x, <<1, 0>>)

tie_or_clone_weights_lenient(params, output_embeddings, input_embeddings) ==
    LET out == params[output_embeddings.weight]
        inp == params[input_embeddings.weight]
    IN IF out.shape = inp.shape
       THEN [error |-> "none", params |-> params,
             output_embeddings |->
                [output_embeddings EXCEPT !.weight = input_embeddings.weight]]
       ELSE IF out.shape = Tensor_t(inp).shape
       THEN [error |-> "none",
             params |-> [params EXCEPT ![output_embeddings.weight] = Tensor_t(inp)],
             output_embeddings |-> output_embeddings]
       ELSE [error |-> "none", params |-> params,
             output_embeddings |-> output_embeddings]

\* _tie_or_clone_weights, lines 282-303: the output weight becomes the input
\* weight itself, or takes the values of its transpose, or the call raises;
\* then the bias of the output layer, if it has one, is checked
tie_or_clone_weights(params, output_embeddings, input_embeddings) ==
    LET out == params[output_embeddings.weight]
        inp == params[input_embeddings.weight]
        tied ==
            IF out.shape = inp.shape
            THEN [error |-> "none", params |-> params,
                  output_embeddings |->
                     [output_embeddings EXCEPT !.weight = input_embeddings.weight]]
            ELSE IF out.shape = Tensor_t(inp).shape
            THEN [error |-> "none",
                  params |-> [params EXCEPT ![output_embeddings.weight] = Tensor_t(inp)],
                  output_embeddings |-> output_embeddings]
            ELSE [error |-> "ValueError", params |-> params,
                  output_embeddings |-> output_embeddings]
        weight == tied.params[tied.output_embeddings.weight]
    IN IF tied.error = "none" /\ output_embeddings.bias # None
            /\ weight.shape[Len(weight.shape)] # output_embeddings.bias[1][1]
       THEN [tied EXCEPT !.error = "ValueError"]
       ELSE tied

\* get_input_embeddings and get_output_embeddings of
\* ElectraForTotalPretraining, lines 908-918
get_embeddings(untied_generator_embeddings, word_embeddings) ==
    IF ~untied_generator_embeddings THEN Some(word_embeddings) ELSE None

\* a generator and a discriminator whose word embeddings are nn.Embedding
\* layers (no bias) of any two shapes
TieInputs ==
    [pc : {"new"},
     untied_generator_embeddings : BOOLEAN,
     generator_shape : (1..MaxEmbedding) \X (1..MaxEmbedding),
     discriminator_shape : (1..MaxEmbedding) \X (1..MaxEmbedding),
     model : {None},
     params : {<<>>},
     error : {"none"}]

InitTie ==
    /\ tie \in TieInputs
    /\ relpos = Idle /\ attn = Idle /\ electra = Idle /\ crit = Idle
    /\ enc = Idle /\ nezha = Idle /\ mc = Idle /\ qa = Idle /\ pre = Idle
    /\ emask = Idle /\ av = Idle /\ sampler = Idle

\* ElectraForTotalPretraining.__init__, lines 900-906: init_weights applies
\* _init_weights to every sub-layer and then calls tie_weights (lines 245-263);
\* an exception leaves no model
ElectraForTotalPretraining_init ==
    /\ tie # Idle
    /\ tie.pc = "new"
    /\ LET params == [cell \in {"generator", "discriminator"} |->
                        IF cell = "generator"
                        THEN embedding_weight(cell, tie.generator_shape[1],
                                              tie.generator_shape[2])
                        ELSE embedding_weight(cell, tie.discriminator_shape[1],
                                              tie.discriminator_shape[2])]
           generator_word_embeddings == [weight |-> "generator", bias |-> None]
           discriminator_word_embeddings == [weight |-> "discriminator", bias |-> None]
           output_embeddings == get_embeddings(tie.untied_generator_embeddings,
                                               discriminator_word_embeddings)
           input_embeddings == get_embeddings(tie.untied_generator_embeddings,
                                              generator_word_embeddings)
           r == IF output_embeddings # None
                THEN tie_or_clone_weights(params, output_embeddings[1], input_embeddings[1])
                ELSE [error |-> "none", params |-> params,
                      output_embeddings |-> discriminator_word_embeddings]
       IN IF r.error # "none"
          THEN tie' = [tie EXCEPT !.pc = "raised", !.error = r.error]
          ELSE tie' = [tie EXCEPT
                    !.pc = "constructed",
                    !.params = r.params,
                    !.model = Some([generator_word_embeddings |-> generator_word_embeddings,
                                    discriminator_word_embeddings |-> r.output_embeddings])]
    /\ UNCHANGED <<relpos, attn, electra, crit, enc, nezha, mc, qa, pre, emask, av, sampler>>

\* init_weights called again on a constructed model: the values are set anew
\* and the weights are tied again
ElectraPretrainedModel_init_weights ==
    /\ tie # Idle
    /\ tie.pc = "constructed"
    /\ LET m == tie.model[1]
           params == [cell \in DOMAIN tie.params |->
                        Tensor(tie.params[cell].shape,
                               [e \in DOMAIN tie.params[cell].data |->
                                    <<cell, e \div tie.params[cell].shape[2],
                                      e % tie.params[cell].shape[2]>>])]
           output_embeddings == get_embeddings(tie.untied_generator_embeddings,
                                               m.discriminator_word_embeddings)
           input_embeddings == get_embeddings(tie.untied_generator_embeddings,
                                              m.generator_word_embeddings)
           r == IF output_embeddings # None
                THEN tie_or_clone_weights(params, output_embeddings[1], input_embeddings[1])
                ELSE [error |-> "none", params |-> params,
                      output_embeddings |-> m.discriminator_word_embeddings]
       IN tie' = [tie EXCEPT
                    !.pc = "initialized",
                    !.error = r.error,
                    !.params = r.params,
                    !.model = Some([m EXCEPT !.discriminator_word_embeddings =
                                                    r.output_embeddings])]
    /\ UNCHANGED <<relpos, attn, electra, crit, enc, nezha, mc, qa, pre, emask, av, sampler>>

NextTie ==
    \/ ElectraForTotalPretraining_init
    \/ ElectraPretrainedModel_init_weights

SpecTie == InitTie /\ [][NextTie]_vars

\* the shape of the transposed generator weight
TieTransposed == <<tie.generator_shape[2], tie.generator_shape[1]>>

\* C21: when the embeddings are tied (untied_generator_embeddings false),
\* construction has exactly three outcomes: with equal shapes the
\* discriminator's word embedding uses the very parameter of the generator's;
\* with the transposed shape it keeps its own parameter, whose values are the
\* transposed values of the generator's; with any other pair of shapes
\* construction raises ValueError and there is no model.
C21_TieOrClone ==
    (tie # Idle /\ tie.pc # "new" /\ ~tie.untied_generator_embeddings) =>
        /\ tie.discriminator_shape = tie.generator_shape =>
                /\ tie.pc \in {"constructed", "initialized"}
                /\ tie.error = "none"
                /\ tie.model[1].discriminator_word_embeddings.weight
                        = tie.model[1].generator_word_embeddings.weight
        /\ (tie.discriminator_shape # tie.generator_shape
                /\ tie.discriminator_shape = TieTransposed) =>
                /\ tie.pc \in {"constructed", "initialized"}
                /\ tie.error = "none"
                /\ tie.model[1].discriminator_word_embeddings.weight = "discriminator"
                /\ tie.model[1].generator_word_embeddings.weight = "generator"
                /\ tie.params["discriminator"].shape = tie.discriminator_shape
                /\ \A i \in 0..(tie.discriminator_shape[1] - 1),
                      j \in 0..(tie.discriminator_shape[2] - 1) :
                        tie.params["discriminator"].data[i * tie.discriminator_shape[2] + j]
                            = tie.params["generator"].data[j * tie.generator_shape[2] + i]
        /\ (tie.discriminator_shape # tie.generator_shape
                /\ tie.discriminator_shape # TieTransposed) =>
                /\ tie.pc = "raised"
                /\ tie.error = "ValueError"
                /\ tie.model = None
                /\ tie.params = <<>>

\* a discriminator embedding of shape (3, 2) against a generator embedding of
\* shape (2, 3): the values are copied transposed
C21_Witness ==
    /\ tie # Idle
    /\ tie.pc = "constructed"
    /\ ~tie.untied_generator_embeddings
    /\ tie.generator_shape = <<2, 3>>
    /\ tie.discriminator_shape = <<3, 2>>
    /\ tie.params["discriminator"].data[1] = <<"generator", 1, 0>>
    /\ tie.params["discriminator"].data[2] = <<"generator", 0, 1>>

\* equal shapes: one parameter
C21_WitnessTied ==
    /\ tie # Idle
    /\ tie.pc = "constructed"
    /\ ~tie.untied_generator_embeddings
    /\ tie.generator_shape = <<3, 2>>
    /\ tie.model[1].discriminator_word_embeddings.weight = "generator"

\* any other pair of shapes: ValueError
C21_WitnessRaised ==
    /\ tie # Idle
    /\ tie.pc = "raised"
    /\ tie.error = "ValueError"
    /\ tie.generator_shape = <<3, 2>>
    /\ tie.discriminator_shape = <<3, 3>>
    /\ tie.model = None

====
